---------------------------- MODULE Spec2Model ----------------------------
(***************************************************************************)
(* Delivery pipeline of qsr_mparticle: RateLimiter, CircuitBreaker,        *)
(* OptimizedMParticleClient and the per-batch pipeline of processor.py.    *)
(*                                                                         *)
(* Time is an integer number of ticks read from one clock (time.time()).   *)
(* In the limiter one tick is 0.1 s, the slack acquire() adds to its       *)
(* sleep.  Each component has its own specification over its own           *)
(* variables; the variables of the other components stay at their initial  *)
(* values.                                                                 *)
(***************************************************************************)
EXTENDS Integers, Sequences, FiniteSets, TLC

\* ------------------------------------------------------------ parameters
\* Number of threads calling into one shared object.
NumThreads == 2
\* Last clock value explored.
MaxTime == 6
\* Number of acquire() calls explored on the limiter.
MaxAcquires == 4
\* Number of call() calls explored on the breaker.
MaxCalls == 5

\* RateLimiter.__init__ arguments (api.py:31); the client passes 100 and 60 s.
max_requests == 2
time_window == 2
\* The 0.1 s acquire() adds to its sleep: one tick.
SleepSlack == 1

\* CircuitBreaker.__init__ arguments (api.py:63); the client passes 5 and 60 s.
failure_threshold == 2
recovery_timeout == 2

\* Rows in one batch handed to a worker (at most batch_size of them).
BatchLen == 3
\* Rows in each batch when the batches of a chunk run side by side.
ChunkRows == 2
\* batch_size of the client that send_events_batch_to_mparticle builds
\* (processor.py:157 passes 10).
client_batch_size == 2

\* last_failure_time before any failure (None in the source).
None == -1

Threads == 1..NumThreads

VARIABLES
    clock,              \* time.time()
    \* RateLimiter
    requests,           \* self.requests: deque of admission timestamps
    rl_lock,            \* holder of self.lock (0: free)
    rl_pc,              \* per thread: "idle" | "sleeping" (inside time.sleep, lock held)
    rl_wake,            \* per thread: earliest clock at which time.sleep returns
    admitted,           \* history: every timestamp acquire() ever recorded
    waited,             \* history: number of admissions that went through the sleep
    acquires,           \* history: number of acquire() calls started
    \* CircuitBreaker
    state,              \* self.state
    failure_count,      \* self.failure_count
    last_failure_time,  \* self.last_failure_time
    cb_pc,              \* per thread: "idle" | "running" (inside func, lock released)
    result,             \* per thread: how its latest call() ended
    calls,              \* history: number of call() calls started
    invocations,        \* history: number of times call() invoked func
    streak,             \* history: operation failures recorded since the last recorded success
    last,               \* history: the latest breaker event and the state it found
    \* per-batch pipeline: one worker task per batch
    enable_batching,    \* the run's enable_batching flag
    batch_len,          \* per worker: len(events_to_send) of its batch; rows are 1..batch_len
    wpc,                \* per worker: "ready" | "sleeping" | "posting" | "done" | "raised"
    pos,                \* per worker: events already handled by the sending loop
    client,             \* per worker: limiter and breaker of the client built for its batch
    wake,               \* per worker: earliest clock at which the limiter's sleep returns
    batch_results,      \* per worker: the results dict of send_events_batch
    results,            \* per worker: the results dict of process_csv_batch_optimized
    failed_rows,        \* per worker: the failed_rows list of process_csv_batch_optimized
    delivered,          \* history, per worker: rows whose request was answered 2xx
    single,             \* history, per worker: latest _send_single_event, cause and outcome
    wire,               \* history: admission timestamps of all outbound requests of the run
    run_streak,         \* history: failures recorded in a row by any worker of the run
    \* session.post under the adapter's Retry policy, inside one _send_single_event
    po_pc,              \* "idle" | "waiting" (a request is on the wire) | "done"
    retry_total,        \* Retry.total: retries still allowed
    retry_history,      \* len(Retry.history): retries made so far
    attempts,           \* history: HTTP requests sent by this session.post
    responses,          \* history: what came back for each attempt
    backoff_sleeps,     \* history: the backoff time.sleep calls, in ticks of 0.1 s
    header_sleeps,      \* history: number of time.sleep calls for a Retry-After header
    send_result,        \* what _send_single_event gave its caller
    \* DeduplicationCache shared by the workers of a run
    sent_events,        \* the set of fingerprints
    max_size,
    dd_pc,              \* per worker: "idle" | "checked" (miss seen) | "sized" (size test done)
    dd_hash,            \* per worker: event_hash of the call in progress
    dd_calls,           \* history: is_duplicate calls started
    dd_seen,            \* history: number of distinct fingerprints handed in so far
    dd_last,            \* history: the latest call started or returned, and its result
    dd_twice,           \* history: the latest call repeated the content of a call that
                        \*          had just returned False
    dd_new,             \* history: per fingerprint, the calls that returned False
    dd_evicted,         \* history: some fingerprint has been evicted
    dd_overlap,         \* history: two calls have been in progress at the same time
    \* ProcessingCheckpoint and its file
    ck,                 \* the object: processed_count, failed_events, start_time,
                        \*             total_rows, success_count
    ck_file,            \* what is at checkpoint_file on disk
    ck_loaded,          \* what the latest load_checkpoint returned
    ck_op,              \* history: the latest operation on the object or the file
    ck_saved,           \* history: the object as it was at the latest completed save
    ck_trip,            \* history: how far save -> new process -> load has got
    ck_crash,           \* history: the file before and after the save that was cut short
    \* process_csv_data
    run_pc,             \* "start" | "chunks" | "all" | "retry" | "done" | "raised"
    run_cfg,            \* the flags, the number of rows in the file, chunk_size
    total_processed,
    total_successful,
    all_failed_rows,    \* len(all_failed_rows)
    run_report,         \* the dictionary process_csv_data returns
    chunk_saved,        \* history: the latest chunk was followed by save_checkpoint
    run_cleaned,        \* history: the run called clean_checkpoint
    resumed_from,       \* history: processed_count of the checkpoint loaded at the start
    \* the one batch of a small file, row by row
    csv_rows,           \* the content of each row of the file
    row_pos,            \* rows of the batch gone through so far
    events_to_send,     \* len(events_to_send)
    row_results,        \* the batch's results dictionary
    accepts,            \* the remote endpoint accepts every request (or none)
    \* PerformanceMonitor
    optimal_batch_size,
    optimal_workers,
    samples,            \* len(metrics['batch_times'])
    avg,                \* the means of success_rates (percent), memory_usage,
                        \* cpu_usage and throughput over the samples held
    tn_op,              \* history: the latest call, "new" | "record" | "tune" | "chunk"
    tn_cfg,             \* <<batch_size, max_workers>> process_csv_data was called with
    tn_used,            \* <<batch_size, max_workers>> the latest chunk was dispatched with
    \* one chunk through process_chunk_in_batches and the retry pass
    ps_cfg,             \* rows, batch_size, max_workers, the flags, the endpoint,
                        \* the rows whose mapping raises, who the rows are for
    task,               \* per batch: "queued" | "running" | "returned" | "raised" | "collected"
    task_out,           \* per batch: what process_csv_batch_optimized returned
    seen,               \* the endpoint: the events it has been sent at least once
    payloads,           \* the payloads posted by the latest step
    ps_pc,              \* "pool" | "retry" | "done" | "raised"
    ps_successful,      \* total_successful of process_chunk_in_batches
    ps_failed,          \* total_failed of process_chunk_in_batches
    ps_failed_rows,     \* all_failed_rows
    retry_pos,          \* rows of all_failed_rows the retry pass has gone through
    retry_results,      \* retry_results["success"]
    ps_report,          \* the dictionary process_csv_data returns
    \* one client sending request after request through its breaker
    gp_sent,            \* requests handed to circuit_breaker.call so far
    gp_hist,            \* history: the kinds of answer the endpoint has given
    gp_last,            \* history: how the latest request ended, and on what answer
    \* the batches of one chunk, each in its worker, sharing the dedup cache
    rc_dedup,           \* enable_deduplication
    rc_batch,           \* per worker: the contents of the rows of its batch
    rc_pc,              \* per worker: "look" | "add" | "sent"
    rc_pos,             \* per worker: rows of the batch gone through
    rc_events,          \* per worker: len(events_to_send)
    rc_report,          \* the counts of the run once every batch is collected
    \* the end of process_csv_data: the retry pass and the file of failed rows
    sk_cfg,             \* retry_failed, and whether save_failed_file is given
    sk_rows,            \* all_failed_rows
    sk_pos,             \* rows the retry pass has gone through
    sk_ok,              \* history: the rows whose retry was accepted
    sk_pc,              \* "retry" | "done"
    sk_file             \* the rows written to save_failed_file

rlVars == <<requests, rl_lock, rl_pc, rl_wake, admitted, waited, acquires>>
cbVars == <<state, failure_count, last_failure_time, cb_pc, result, calls,
            invocations, streak, last>>
plVars == <<enable_batching, batch_len, wpc, pos, client, wake, batch_results,
            results, failed_rows, delivered, single, wire, run_streak>>
poVars == <<po_pc, retry_total, retry_history, attempts, responses, backoff_sleeps,
            header_sleeps, send_result>>
ddVars == <<sent_events, max_size, dd_pc, dd_hash, dd_calls, dd_seen, dd_last, dd_twice,
            dd_new, dd_evicted, dd_overlap>>
ckVars == <<ck, ck_file, ck_loaded, ck_op, ck_saved, ck_trip, ck_crash>>
rnVars == <<run_pc, run_cfg, total_processed, total_successful, all_failed_rows, run_report,
            chunk_saved, run_cleaned, resumed_from>>
tlVars == <<csv_rows, row_pos, events_to_send, row_results, accepts>>
tnVars == <<optimal_batch_size, optimal_workers, samples, avg, tn_op, tn_cfg, tn_used>>
psVars == <<ps_cfg, task, task_out, seen, payloads, ps_pc, ps_successful, ps_failed,
            ps_failed_rows, retry_pos, retry_results, ps_report>>
gpVars == <<gp_sent, gp_hist, gp_last>>
rcVars == <<rc_dedup, rc_batch, rc_pc, rc_pos, rc_events, rc_report>>
skVars == <<sk_cfg, sk_rows, sk_pos, sk_ok, sk_pc, sk_file>>
yVars == <<tnVars, psVars, gpVars, rcVars, skVars>>
xVars == <<poVars, ddVars, ckVars, rnVars, tlVars, yVars>>
vars == <<clock, rlVars, cbVars, plVars, xVars>>

\* PerformanceMonitor: samples needed before tuning, the limits of the tuned
\* parameters, and the length of each deque of samples.
MinSamples == 5
MaxBatchSize == 200
MinBatchSize == 50
MaxWorkers == 20
MinWorkers == 3
MetricsMaxLen == 6
MaxFailedRows == 4

\* The end-to-end run: rows of the file, batch_size and max_workers of
\* process_csv_data, and the batch_size process_csv_batch_optimized passes on.
RunRecords == 25
RunBatchSize == 10
RunWorkers == 3
wire_batch_size == 10

\* ----------------------------------------------------------- RateLimiter

\* while self.requests and self.requests[0] <= now - self.time_window: popleft()
RECURSIVE Evict(_, _)
Evict(reqs, now) ==
    IF reqs # <<>> /\ Head(reqs) <= now - time_window
    THEN Evict(Tail(reqs), now)
    ELSE reqs

LimiterFull_OffByOne(reqs) == Len(reqs) > max_requests
\* if len(self.requests) >= self.max_requests
LimiterFull(reqs) == Len(reqs) >= max_requests

\* sleep_time = self.time_window - (now - self.requests[0]) + 0.1
SleepTime(reqs, now) == time_window - (now - Head(reqs)) + SleepSlack

RlInit ==
    /\ requests = <<>>
    /\ rl_lock = 0
    /\ rl_pc = [t \in Threads |-> "idle"]
    /\ rl_wake = [t \in Threads |-> 0]
    /\ admitted = <<>>
    /\ waited = 0
    /\ acquires = 0

\* acquire() up to the append (room in the window) or up to time.sleep (window
\* full): the lock is taken, now is read, the expired entries are evicted.
AcquireEnter(t) ==
    /\ rl_pc[t] = "idle"
    /\ rl_lock = 0
    /\ acquires < MaxAcquires
    /\ acquires' = acquires + 1
    /\ LET now == clock
           kept == Evict(requests, now)
       IN IF LimiterFull(kept)
          THEN /\ requests' = kept
               /\ rl_lock' = t
               /\ rl_pc' = [rl_pc EXCEPT ![t] = "sleeping"]
               /\ rl_wake' = [rl_wake EXCEPT ![t] = now + SleepTime(kept, now)]
               /\ UNCHANGED <<admitted, waited>>
          ELSE /\ requests' = Append(kept, now)
               /\ admitted' = Append(admitted, now)
               /\ UNCHANGED <<rl_lock, rl_pc, rl_wake, waited>>
    /\ UNCHANGED <<clock, cbVars, plVars, xVars>>

\* time.sleep returns (no earlier than asked): now is read again, the expired
\* entries are evicted, now is appended and the lock is released.
AcquireWake(t) ==
    /\ rl_pc[t] = "sleeping"
    /\ rl_lock = t
    /\ clock >= rl_wake[t]
    /\ LET now == clock
       IN /\ requests' = Append(Evict(requests, now), now)
          /\ admitted' = Append(admitted, now)
    /\ waited' = waited + 1
    /\ rl_lock' = 0
    /\ rl_pc' = [rl_pc EXCEPT ![t] = "idle"]
    /\ UNCHANGED <<clock, rl_wake, acquires, cbVars, plVars, xVars>>

\* ---------------------------------------------------------- CircuitBreaker

RecoveryElapsed_Reversed(now, lft) == now - lft < recovery_timeout
\* time.time() - self.last_failure_time > self.recovery_timeout
RecoveryElapsed(now, lft) == now - lft > recovery_timeout

ThresholdReached_Strict(count) == count > failure_threshold
\* if self.failure_count >= self.failure_threshold
ThresholdReached(count) == count >= failure_threshold

SuccessCount_OnlyWhenHalfOpen(st, count) == IF st = "HALF_OPEN" THEN 0 ELSE count
\* _record_success: self.failure_count = 0, in every state
SuccessCount(st, count) == 0

\* _record_success: HALF_OPEN becomes CLOSED, any other state stays
SuccessState(st) == IF st = "HALF_OPEN" THEN "CLOSED" ELSE st

RejectedLastFailureTime_Recorded(now, lft) == now
\* call() raises "Circuit breaker is OPEN" before its try block, so
\* _record_failure does not run for a rejected call.
RejectedLastFailureTime(now, lft) == lft

CbInit ==
    /\ state = "CLOSED"
    /\ failure_count = 0
    /\ last_failure_time = None
    /\ cb_pc = [t \in Threads |-> "idle"]
    /\ result = [t \in Threads |-> "none"]
    /\ calls = 0
    /\ invocations = 0
    /\ streak = 0
    /\ last = [op |-> "none", pre |-> "CLOSED"]

\* call(), the first critical section: an OPEN breaker either moves to HALF_OPEN
\* (recovery_timeout elapsed) or raises; in every other case func is invoked
\* with the lock released.
CallEnter(t) ==
    /\ cb_pc[t] = "idle"
    /\ calls < MaxCalls
    /\ calls' = calls + 1
    /\ IF state = "OPEN" /\ ~RecoveryElapsed(clock, last_failure_time)
       THEN /\ result' = [result EXCEPT ![t] = "BreakerOpen"]
            /\ last' = [op |-> "reject", pre |-> state]
            /\ last_failure_time' = RejectedLastFailureTime(clock, last_failure_time)
            /\ UNCHANGED <<state, cb_pc, invocations>>
       ELSE /\ state' = IF state = "OPEN" THEN "HALF_OPEN" ELSE state
            /\ cb_pc' = [cb_pc EXCEPT ![t] = "running"]
            /\ invocations' = invocations + 1
            /\ last' = [op |-> "invoke", pre |-> state]
            /\ UNCHANGED <<result, last_failure_time>>
    /\ UNCHANGED <<clock, failure_count, streak, rlVars, plVars, xVars>>

\* func returns; _record_success runs under the lock; call() returns the result.
CallSucceed(t) ==
    /\ cb_pc[t] = "running"
    /\ state' = SuccessState(state)
    /\ failure_count' = SuccessCount(state, failure_count)
    /\ streak' = 0
    /\ cb_pc' = [cb_pc EXCEPT ![t] = "idle"]
    /\ result' = [result EXCEPT ![t] = "returned"]
    /\ last' = [op |-> "success", pre |-> state]
    /\ UNCHANGED <<clock, last_failure_time, calls, invocations, rlVars, plVars, xVars>>

\* func raises; _record_failure runs under the lock; call() re-raises.
CallFail(t) ==
    /\ cb_pc[t] = "running"
    /\ failure_count' = failure_count + 1
    /\ last_failure_time' = clock
    /\ state' = IF ThresholdReached(failure_count + 1) THEN "OPEN" ELSE state
    /\ streak' = streak + 1
    /\ cb_pc' = [cb_pc EXCEPT ![t] = "idle"]
    /\ result' = [result EXCEPT ![t] = "raised"]
    /\ last' = [op |-> "failure", pre |-> state]
    /\ UNCHANGED <<clock, calls, invocations, rlVars, plVars, xVars>>

\* ------------------------------------------- OptimizedMParticleClient

\* What the remote call of one request can end in: a 2xx response, a non-2xx
\* response, or a requests.exceptions.RequestException.
Causes == {"2xx", "non2xx", "exception"}

Return(v) == [kind |-> "return", value |-> v]
Raise(e) == [kind |-> "raise", value |-> e]

MakeApiRequest_RaisesOnStatus(cause) ==
    IF cause = "2xx" THEN Return("True") ELSE Raise("RequestException")

\* _make_api_request: True on 2xx, False on any other status, re-raise on a
\* request exception.
MakeApiRequest(cause) ==
    CASE cause = "2xx" -> Return("True")
      [] cause = "non2xx" -> Return("False")
      [] OTHER -> Raise("RequestException")

\* CircuitBreaker.call as its caller sees it: the breaker's own exception when
\* it rejects, else func's result or func's exception unchanged.
BreakerCall(cause) ==
    IF cause = "rejected" THEN Raise("BreakerOpen") ELSE MakeApiRequest(cause)

SendSingleEvent_CatchesRequestErrors(out) ==
    IF out.kind = "raise" /\ out.value = "RequestException" THEN Return("False") ELSE out
\* _send_single_event: try: return circuit_breaker.call(...); except Exception: return False
SendSingleEvent(out) ==
    IF out.kind = "raise" THEN Return("False") ELSE out

\* _send_batch_events: the same try/except around the merged request
SendBatchEvents(out) ==
    IF out.kind = "raise" THEN Return("False") ELSE out

BatchTally_CountsRequests(res, ok, n) ==
    IF ok THEN [res EXCEPT !.success = @ + n] ELSE [res EXCEPT !.failed = @ + 1]
\* send_events_batch: results["success"] += len(batch), or results["failed"] += len(batch)
BatchTally(res, ok, n) ==
    IF ok THEN [res EXCEPT !.success = @ + n] ELSE [res EXCEPT !.failed = @ + n]

\* A fresh client: OptimizedMParticleClient.__init__ builds its own RateLimiter
\* and its own CircuitBreaker.
NewClient ==
    [requests |-> <<>>, state |-> "CLOSED", failure_count |-> 0,
     last_failure_time |-> None]

\* ------------------------------------------------- per-batch pipeline

Workers == Threads

Min(a, b) == IF a < b THEN a ELSE b

\* Rows covered by the next request of worker w: in batched mode
\* events[i:i + batch_size] of send_events_batch, else the next row alone.
SpanEnd(w) ==
    IF enable_batching THEN Min(pos[w] + client_batch_size, batch_len[w])
    ELSE pos[w] + 1

\* Whether the next request goes through _send_single_event: always in
\* unbatched mode (send_event), and for a slice of one event in batched mode.
IsSingle(w) == ~enable_batching \/ SpanEnd(w) = pos[w] + 1

\* process_chunk_in_batches has submitted one task per batch: worker w holds a
\* batch of lens[w] rows to send (none: it has no batch) and builds a fresh
\* client for it.
PlInit(lens) ==
    /\ enable_batching \in BOOLEAN
    /\ batch_len = lens
    /\ wpc = [w \in Workers |-> IF lens[w] = 0 THEN "done" ELSE "ready"]
    /\ pos = [w \in Workers |-> 0]
    /\ client = [w \in Workers |-> NewClient]
    /\ wake = [w \in Workers |-> 0]
    /\ batch_results = [w \in Workers |-> [success |-> 0, failed |-> 0]]
    /\ results = [w \in Workers |-> [success |-> 0, failed |-> 0]]
    /\ failed_rows = [w \in Workers |-> <<>>]
    /\ delivered = [w \in Workers |-> {}]
    /\ single = [w \in Workers |-> [cause |-> "none", out |-> Return("none")]]
    /\ wire = <<>>
    /\ run_streak = 0

\* The variables of the pipeline when no batch is being processed.
PlIdle ==
    /\ enable_batching = FALSE
    /\ batch_len = [w \in Workers |-> 0]
    /\ wpc = [w \in Workers |-> "done"]
    /\ pos = [w \in Workers |-> 0]
    /\ client = [w \in Workers |-> NewClient]
    /\ wake = [w \in Workers |-> 0]
    /\ batch_results = [w \in Workers |-> [success |-> 0, failed |-> 0]]
    /\ results = [w \in Workers |-> [success |-> 0, failed |-> 0]]
    /\ failed_rows = [w \in Workers |-> <<>>]
    /\ delivered = [w \in Workers |-> {}]
    /\ single = [w \in Workers |-> [cause |-> "none", out |-> Return("none")]]
    /\ wire = <<>>
    /\ run_streak = 0

\* The rows lo..hi as a list.
Rows(lo, hi) == [i \in 1..(hi - lo + 1) |-> lo + i - 1]

\* The request of worker w over rows pos+1..SpanEnd ended by `cause`; its
\* outcome is accounted for as the sending loop and, after the last request,
\* process_csv_batch_optimized do.
Account(w, cause) ==
    LET lo == pos[w] + 1
        hi == SpanEnd(w)
        n == hi - lo + 1
        out == IF IsSingle(w) THEN SendSingleEvent(BreakerCall(cause))
               ELSE SendBatchEvents(BreakerCall(cause))
        ok == out = Return("True")
        last_one == hi = batch_len[w]
        br == BatchTally(batch_results[w], ok, n)
    IN /\ single' = IF IsSingle(w)
                    THEN [single EXCEPT ![w] = [cause |-> cause, out |-> out]]
                    ELSE single
       /\ delivered' = IF cause = "2xx"
                       THEN [delivered EXCEPT ![w] = @ \cup lo..hi]
                       ELSE delivered
       /\ IF out.kind = "raise"
          THEN /\ wpc' = [wpc EXCEPT ![w] = "raised"]
               /\ UNCHANGED <<pos, batch_results, results, failed_rows>>
          ELSE /\ pos' = [pos EXCEPT ![w] = hi]
               /\ wpc' = [wpc EXCEPT ![w] = IF last_one THEN "done" ELSE "ready"]
               /\ IF enable_batching
                  THEN /\ batch_results' = [batch_results EXCEPT ![w] = br]
                       /\ IF ~last_one
                          THEN UNCHANGED <<results, failed_rows>>
                          ELSE IF br.success > 0
                          THEN /\ results' = [results EXCEPT ![w].success = @ + batch_len[w]]
                               /\ UNCHANGED failed_rows
                          ELSE /\ results' = [results EXCEPT ![w].failed = @ + batch_len[w]]
                               /\ failed_rows' = [failed_rows EXCEPT
                                                    ![w] = @ \o Rows(1, batch_len[w])]
                  ELSE /\ UNCHANGED batch_results
                       /\ IF ok
                          THEN /\ results' = [results EXCEPT ![w].success = @ + 1]
                               /\ UNCHANGED failed_rows
                          ELSE /\ results' = [results EXCEPT ![w].failed = @ + 1]
                               /\ failed_rows' = [failed_rows EXCEPT ![w] = Append(@, lo)]

RejectedRequests_Admitted(reqs, now) == Append(Evict(reqs, now), now)

\* The limiter's window after circuit_breaker.call raised at line 79:
\* _make_api_request, and rate_limiter.acquire() in it, never ran.
RejectedRequests(reqs, now) == reqs

\* The next request of worker w enters circuit_breaker.call: an OPEN breaker
\* whose recovery_timeout has not elapsed rejects it; otherwise
\* _make_api_request starts with rate_limiter.acquire(), which admits the
\* request or sleeps.
SendEnter(w) ==
    /\ wpc[w] = "ready"
    /\ LET c == client[w]
           now == clock
           kept == Evict(c.requests, now)
       IN IF c.state = "OPEN" /\ ~RecoveryElapsed(now, c.last_failure_time)
          THEN /\ Account(w, "rejected")
               /\ client' = [client EXCEPT ![w].requests = RejectedRequests(c.requests, now)]
               /\ UNCHANGED <<wake, wire>>
          ELSE LET st == IF c.state = "OPEN" THEN "HALF_OPEN" ELSE c.state
               IN IF LimiterFull(kept)
                  THEN /\ client' = [client EXCEPT ![w].state = st, ![w].requests = kept]
                       /\ wake' = [wake EXCEPT ![w] = now + SleepTime(kept, now)]
                       /\ wpc' = [wpc EXCEPT ![w] = "sleeping"]
                       /\ UNCHANGED <<pos, batch_results, results, failed_rows,
                                      delivered, single, wire>>
                  ELSE /\ client' = [client EXCEPT ![w].state = st,
                                                   ![w].requests = Append(kept, now)]
                       /\ wire' = Append(wire, now)
                       /\ wpc' = [wpc EXCEPT ![w] = "posting"]
                       /\ UNCHANGED <<pos, wake, batch_results, results, failed_rows,
                                      delivered, single>>
    /\ UNCHANGED <<clock, enable_batching, batch_len, run_streak, rlVars, cbVars, xVars>>

\* The limiter's sleep of worker w returns: the request is admitted.
SendWake(w) ==
    /\ wpc[w] = "sleeping"
    /\ clock >= wake[w]
    /\ client' = [client EXCEPT
                    ![w].requests = Append(Evict(@, clock), clock)]
    /\ wire' = Append(wire, clock)
    /\ wpc' = [wpc EXCEPT ![w] = "posting"]
    /\ UNCHANGED <<clock, enable_batching, batch_len, pos, wake, batch_results,
                   results, failed_rows, delivered, single, run_streak, rlVars, cbVars, xVars>>

\* session.post of worker w ends by `cause`; the breaker records a success when
\* _make_api_request returned (2xx or not) and a failure when it raised.
SendFinish(w, cause) ==
    /\ wpc[w] = "posting"
    /\ LET c == client[w]
       IN IF MakeApiRequest(cause).kind = "return"
          THEN /\ client' = [client EXCEPT
                               ![w].state = SuccessState(c.state),
                               ![w].failure_count = SuccessCount(c.state, c.failure_count)]
               /\ run_streak' = 0
          ELSE /\ client' = [client EXCEPT
                               ![w].failure_count = c.failure_count + 1,
                               ![w].last_failure_time = clock,
                               ![w].state = IF ThresholdReached(c.failure_count + 1)
                                            THEN "OPEN" ELSE c.state]
               /\ run_streak' = run_streak + 1
    /\ Account(w, cause)
    /\ UNCHANGED <<clock, enable_batching, batch_len, wake, wire, rlVars, cbVars, xVars>>

\* ------------------------------------- session.post and its Retry policy
\* _create_optimized_session mounts HTTPAdapter(max_retries=Retry(total=3,
\* backoff_factor=0.3, status_forcelist=[429, 500, 502, 503, 504],
\* allowed_methods=["POST"])); every other Retry argument keeps urllib3's
\* default.  session.post then runs urllib3's retry loop.

\* Retry(total=3)
total == 3
\* Retry(backoff_factor=0.3), in ticks of 0.1 s
backoff_factor == 3
\* Retry(status_forcelist=[429, 500, 502, 503, 504])
status_forcelist == {429, 500, 502, 503, 504}
\* Retry.RETRY_AFTER_STATUS_CODES, with respect_retry_after_header left True
RetryAfterStatusCodes == {413, 429, 503}

\* Status codes the remote endpoint answers with in the model.
Statuses == {200, 400, 413, 429, 500, 503}
\* A response: its status and whether it carries a Retry-After header (> 0 s).
Responses == [status : Statuses, retry_after : BOOLEAN]
\* The attempt ended in a connection or read error instead of a response.
NetError == [status |-> 0, retry_after |-> FALSE]

RECURSIVE Pow2(_)
Pow2(n) == IF n = 0 THEN 1 ELSE 2 * Pow2(n - 1)

\* Retry.get_backoff_time: 0 for the first retry in a row, then
\* backoff_factor * 2 ** (consecutive errors - 1), capped at 120 s.
BackoffTime(errors) ==
    IF errors <= 1 THEN 0 ELSE Min(1200, backoff_factor * Pow2(errors - 1))

\* Retry.is_retry for a POST: a forced status, or a Retry-After header on a
\* status that honours it while total is not 0.
IsRetry(r, left) ==
    \/ r.status \in status_forcelist
    \/ left # 0 /\ r.retry_after /\ r.status \in RetryAfterStatusCodes

\* Retry.is_exhausted after increment(): total went below 0.
IsExhausted(left) == left < 0

\* _make_api_request on the response session.post returned.
ResponseCause(r) == IF 200 <= r.status /\ r.status < 300 THEN "2xx" ELSE "non2xx"

PoInit ==
    /\ po_pc = "idle"
    /\ retry_total = total
    /\ retry_history = 0
    /\ attempts = 0
    /\ responses = <<>>
    /\ backoff_sleeps = <<>>
    /\ header_sleeps = 0
    /\ send_result = Return("none")

\* _send_single_event -> circuit_breaker.call (CLOSED) -> _make_api_request ->
\* session.post: the first request goes out.
PostStart ==
    /\ po_pc = "idle"
    /\ po_pc' = "waiting"
    /\ attempts' = 1
    /\ UNCHANGED <<retry_total, retry_history, responses, backoff_sleeps,
                   header_sleeps, send_result>>
    /\ UNCHANGED <<clock, rlVars, cbVars, plVars, yVars, ddVars, ckVars, rnVars, tlVars>>

\* session.post ends by `cause`; _send_single_event hands its caller the result.
PostEnds(cause) ==
    /\ po_pc' = "done"
    /\ send_result' = SendSingleEvent(BreakerCall(cause))
    /\ UNCHANGED <<retry_total, retry_history, attempts, backoff_sleeps, header_sleeps>>

\* Retry.increment() left retries: Retry.sleep(response) sleeps for the
\* Retry-After header if there is one, else for the backoff time if it is
\* positive; then the request is sent again.
PostRetries(r) ==
    /\ po_pc' = "waiting"
    /\ retry_total' = retry_total - 1
    /\ retry_history' = retry_history + 1
    /\ attempts' = attempts + 1
    /\ IF r.retry_after
       THEN /\ header_sleeps' = header_sleeps + 1
            /\ UNCHANGED backoff_sleeps
       ELSE /\ backoff_sleeps' = IF BackoffTime(retry_history + 1) > 0
                                 THEN Append(backoff_sleeps, BackoffTime(retry_history + 1))
                                 ELSE backoff_sleeps
            /\ UNCHANGED header_sleeps
    /\ UNCHANGED send_result

\* A response arrives: urlopen retries it or hands it back; out of retries it
\* raises MaxRetryError, which requests turns into RetryError.
PostResponse(r) ==
    /\ po_pc = "waiting"
    /\ responses' = Append(responses, r)
    /\ IF ~IsRetry(r, retry_total) THEN PostEnds(ResponseCause(r))
       ELSE IF IsExhausted(retry_total - 1) THEN PostEnds("exception")
       ELSE PostRetries(r)
    /\ UNCHANGED <<clock, rlVars, cbVars, plVars, yVars, ddVars, ckVars, rnVars, tlVars>>

\* The attempt fails with a connection or read error: retried the same way,
\* and ConnectionError once the retries are used up.
PostNetError ==
    /\ po_pc = "waiting"
    /\ responses' = Append(responses, NetError)
    /\ IF IsExhausted(retry_total - 1) THEN PostEnds("exception")
       ELSE PostRetries(NetError)
    /\ UNCHANGED <<clock, rlVars, cbVars, plVars, yVars, ddVars, ckVars, rnVars, tlVars>>

\* ------------------------------------------------------ DeduplicationCache
MaxCacheSize == 5
MaxDdCalls == 6

\* _hash_event results: opaque fingerprints, enough of them to overfill the cache.
Fingerprints == 1..(MaxCacheSize + 1)

\* `event_hash in self.sent_events`
Hit(h, cache) == h \in cache

\* `len(self.sent_events) >= self.max_size`
CacheFull(cache, size) == Cardinality(cache) >= size

\* `int(self.max_size * 0.2)`
RemovalCount(size) == (size * 2) \div 10

\* `list(self.sent_events)[:removal_count]`: a set has no defined order, so
\* any removal_count of its elements can come first.
OldEvents(cache, size) ==
    {old \in SUBSET cache : Cardinality(old) = Min(RemovalCount(size), Cardinality(cache))}

Added_Forgets(cache, h) == cache

\* `self.sent_events.add(event_hash)`
Added(cache, h) == cache \cup {h}

NoCall == [hash |-> 0, ret |-> "pending"]

DdInit(size) ==
    /\ sent_events = {}
    /\ max_size = size
    /\ dd_pc = [w \in Workers |-> "idle"]
    /\ dd_hash = [w \in Workers |-> 0]
    /\ dd_calls = 0
    /\ dd_seen = 0
    /\ dd_last = NoCall
    /\ dd_twice = FALSE
    /\ dd_new = [h \in Fingerprints |-> 0]
    /\ dd_evicted = FALSE
    /\ dd_overlap = FALSE

\* The cache of a run that has not called it yet (process_csv_data builds it
\* with the default max_size; the class takes any).
DdIdle == DdInit(50000)

\* is_duplicate, lines 133-137: hash the event and look it up.  A hit returns
\* True at once.  Fingerprints are opaque, so new ones are handed in in order.
DdCheck(w, h) ==
    /\ dd_pc[w] = "idle"
    /\ dd_calls < MaxDdCalls
    /\ h <= dd_seen + 1
    /\ dd_calls' = dd_calls + 1
    /\ dd_seen' = IF h > dd_seen THEN h ELSE dd_seen
    /\ IF Hit(h, sent_events)
       THEN /\ dd_last' = [hash |-> h, ret |-> "True"]
            /\ dd_twice' = (dd_last = [hash |-> h, ret |-> "False"])
            /\ UNCHANGED <<dd_pc, dd_hash, dd_overlap>>
       ELSE /\ dd_last' = [hash |-> h, ret |-> "pending"]
            /\ dd_twice' = FALSE
            /\ dd_pc' = [dd_pc EXCEPT ![w] = "checked"]
            /\ dd_hash' = [dd_hash EXCEPT ![w] = h]
            /\ dd_overlap' = (dd_overlap \/ \E v \in Workers : dd_pc[v] # "idle")
    /\ UNCHANGED <<sent_events, max_size, dd_new, dd_evicted>>
    /\ UNCHANGED <<clock, rlVars, cbVars, plVars, yVars, poVars, ckVars, rnVars, tlVars>>

\* is_duplicate, lines 140-146: the size test, and the cleanup when it is full.
DdEvict(w) ==
    /\ dd_pc[w] = "checked"
    /\ dd_pc' = [dd_pc EXCEPT ![w] = "sized"]
    /\ IF CacheFull(sent_events, max_size)
       THEN \E old \in OldEvents(sent_events, max_size) :
                /\ sent_events' = sent_events \ old
                /\ dd_evicted' = (dd_evicted \/ old # {})
       ELSE UNCHANGED <<sent_events, dd_evicted>>
    /\ dd_last' = NoCall
    /\ UNCHANGED <<max_size, dd_hash, dd_calls, dd_seen, dd_twice, dd_new, dd_overlap>>
    /\ UNCHANGED <<clock, rlVars, cbVars, plVars, yVars, poVars, ckVars, rnVars, tlVars>>

\* is_duplicate, lines 148-149: add the fingerprint and return False.
DdAdd(w) ==
    /\ dd_pc[w] = "sized"
    /\ dd_pc' = [dd_pc EXCEPT ![w] = "idle"]
    /\ sent_events' = Added(sent_events, dd_hash[w])
    /\ dd_new' = [dd_new EXCEPT ![dd_hash[w]] = @ + 1]
    /\ dd_last' = [hash |-> dd_hash[w], ret |-> "False"]
    /\ dd_twice' = FALSE
    /\ UNCHANGED <<max_size, dd_hash, dd_calls, dd_seen, dd_evicted, dd_overlap>>
    /\ UNCHANGED <<clock, rlVars, cbVars, plVars, yVars, poVars, ckVars, rnVars, tlVars>>

\* ---------------------------------------------------- ProcessingCheckpoint
\* The keys of checkpoint_data that load_checkpoint reads back.
Keys == {"processed_count", "failed_events", "start_time", "total_rows", "success_count"}

\* ProcessingCheckpoint.__init__ at time `now`.
NewCheckpoint(now) ==
    [processed_count |-> 0, failed_events |-> <<>>, start_time |-> now,
     total_rows |-> 0, success_count |-> 0]

\* The file: missing, not openable, not unpicklable, a pickle of something
\* that is not a dict, or a pickle of a dict holding `present` of the keys.
NoData == [present |-> {}, val |-> NewCheckpoint(0), timestamp |-> 0]
Missing == [kind |-> "missing", data |-> NoData]
Unreadable == [kind |-> "unreadable", data |-> NoData]
Corrupt == [kind |-> "corrupt", data |-> NoData]
NotADict == [kind |-> "object", data |-> NoData]
Pickle(d) == [kind |-> "pickle", data |-> d]

Dump_NoSuccessCount(o, now) ==
    Pickle([present |-> Keys \ {"success_count"}, val |-> o, timestamp |-> now])

\* save_checkpoint, lines 182-193: checkpoint_data, pickled.
Dump(o, now) == Pickle([present |-> Keys, val |-> o, timestamp |-> now])

\* data.get(key, default)
Get(d, key, default) == IF key \in d.present THEN d.val[key] ELSE default

LoadCheckpoint_AssignsThenFails(o, f, now) ==
    IF f.kind = "pickle"
    THEN [ret |-> "True", obj |-> f.data.val]
    ELSE [ret |-> "False", obj |-> NewCheckpoint(now)]

\* load_checkpoint: what it returns and what the object holds afterwards.
\* Every failure (no file; open or pickle.load raising; data.get raising
\* AttributeError on a non-dict) happens before the first assignment.
LoadCheckpoint(o, f, now) ==
    IF f.kind = "missing" THEN [ret |-> "False", obj |-> o]
    ELSE IF f.kind \in {"unreadable", "corrupt", "object"} THEN [ret |-> "False", obj |-> o]
    ELSE [ret |-> "True",
          obj |-> [processed_count |-> Get(f.data, "processed_count", 0),
                   failed_events |-> Get(f.data, "failed_events", <<>>),
                   start_time |-> Get(f.data, "start_time", now),
                   total_rows |-> Get(f.data, "total_rows", 0),
                   success_count |-> Get(f.data, "success_count", 0)]]

\* save_checkpoint: open(checkpoint_file, 'wb') raises when the file cannot be
\* opened; the error is logged and the file stays as it was.
SaveCheckpoint(o, f, now) == IF f.kind = "unreadable" THEN f ELSE Dump(o, now)

\* save_checkpoint when the process stops inside it: the file as it was
\* (before open), emptied by open(checkpoint_file, 'wb') or holding the part
\* of the pickle written so far (neither can be unpickled), or complete.
InterruptedSave(o, f, now) == {f, Corrupt, Dump(o, now)}

\* clean_checkpoint: os.remove, its error logged.
CleanCheckpoint(f) == IF f.kind = "unreadable" THEN f ELSE Missing

ShouldSave_EveryChunk(processed_count) == TRUE

\* should_save_checkpoint
ShouldSave(processed_count) == processed_count % 1000 = 0

\* Counter values and failed-row lists a checkpoint written by an earlier run
\* can hold.
Counts == {0, 500, 1000}
FailedLists == {<<>>, <<1>>}
Snapshots ==
    [processed_count : {500}, failed_events : FailedLists, start_time : {0},
     total_rows : {1000}, success_count : {0, 500}]

\* What a run can find at checkpoint_file when it starts.
InitialFiles ==
    {Missing, Unreadable, Corrupt, NotADict}
        \cup {Dump(o, 0) : o \in Snapshots}
        \cup {Pickle([present |-> Keys \ {k}, val |-> o, timestamp |-> 0]) :
                k \in Keys, o \in {x \in Snapshots : x.success_count = 500 /\ x.failed_events # <<>>}}

NoSnapshot == NewCheckpoint(None)
NoCrash == [prev |-> Missing, new |-> Missing]

\* ck_crash is kept from the crash to the load that follows it.
CrashKept(trip) == IF trip \in {"crashed", "recovered"} THEN ck_crash ELSE NoCrash

\* A file load_checkpoint returns True for.
Loadable(f) == LoadCheckpoint(NewCheckpoint(0), f, 0).ret = "True"

CkInit(f) ==
    /\ ck = NewCheckpoint(0)
    /\ ck_file = f
    /\ ck_loaded = "none"
    /\ ck_op = "new"
    /\ ck_saved = NoSnapshot
    /\ ck_trip = "none"
    /\ ck_crash = NoCrash

CkIdle == CkInit(Missing)

\* A new process builds a new ProcessingCheckpoint; the file is what it was.
CkRestart ==
    /\ ck' = NewCheckpoint(clock)
    /\ ck_loaded' = "none"
    /\ ck_op' = "new"
    /\ ck_trip' = IF ck_trip = "saved" THEN "fresh"
                  ELSE IF ck_trip = "crashed" THEN "crashed" ELSE "none"
    /\ ck_crash' = CrashKept(ck_trip')
    /\ UNCHANGED <<ck_file, ck_saved>>
    /\ UNCHANGED <<clock, rlVars, cbVars, plVars, yVars, poVars, ddVars, rnVars, tlVars>>

CkLoad ==
    /\ ck' = LoadCheckpoint(ck, ck_file, clock).obj
    /\ ck_loaded' = LoadCheckpoint(ck, ck_file, clock).ret
    /\ ck_op' = "load"
    /\ ck_trip' = IF ck_trip = "fresh" THEN "loaded"
                  ELSE IF ck_trip = "crashed" THEN "recovered" ELSE "none"
    /\ ck_crash' = CrashKept(ck_trip')
    /\ UNCHANGED <<ck_file, ck_saved>>
    /\ UNCHANGED <<clock, rlVars, cbVars, plVars, yVars, poVars, ddVars, rnVars, tlVars>>

\* The owner sets the counters, as process_csv_data does after a chunk.
CkUpdate(processed, successful) ==
    /\ ck' = [ck EXCEPT !.processed_count = processed, !.success_count = successful,
                        !.total_rows = processed]
    /\ ck_op' = "update"
    /\ ck_trip' = "none"
    /\ ck_crash' = CrashKept(ck_trip')
    /\ UNCHANGED <<ck_file, ck_loaded, ck_saved>>
    /\ UNCHANGED <<clock, rlVars, cbVars, plVars, yVars, poVars, ddVars, rnVars, tlVars>>

CkSave ==
    /\ ck_file' = SaveCheckpoint(ck, ck_file, clock)
    /\ IF ck_file.kind = "unreadable"
       THEN ck_op' = "save failed" /\ ck_trip' = "none" /\ UNCHANGED ck_saved
       ELSE ck_op' = "save" /\ ck_trip' = "saved" /\ ck_saved' = ck
    /\ ck_crash' = CrashKept(ck_trip')
    /\ UNCHANGED <<ck, ck_loaded>>
    /\ UNCHANGED <<clock, rlVars, cbVars, plVars, yVars, poVars, ddVars, rnVars, tlVars>>

CkClean ==
    /\ ck_file' = CleanCheckpoint(ck_file)
    /\ ck_op' = "clean"
    /\ ck_trip' = "none"
    /\ ck_crash' = CrashKept(ck_trip')
    /\ UNCHANGED <<ck, ck_loaded, ck_saved>>
    /\ UNCHANGED <<clock, rlVars, cbVars, plVars, yVars, poVars, ddVars, rnVars, tlVars>>

\* The process is killed inside save_checkpoint; the next process starts
\* with a new ProcessingCheckpoint.
CkCrashInSave ==
    /\ ck_file.kind # "unreadable"
    /\ \E f \in InterruptedSave(ck, ck_file, clock) : ck_file' = f
    /\ ck' = NewCheckpoint(clock)
    /\ ck_loaded' = "none"
    /\ ck_op' = "crash"
    /\ ck_trip' = IF Loadable(ck_file) THEN "crashed" ELSE "none"
    /\ ck_crash' = IF Loadable(ck_file)
                   THEN [prev |-> ck_file, new |-> Dump(ck, clock)] ELSE NoCrash
    /\ UNCHANGED ck_saved
    /\ UNCHANGED <<clock, rlVars, cbVars, plVars, yVars, poVars, ddVars, rnVars, tlVars>>

\* The disk outside the program: the file is lost, loses its permissions or
\* is overwritten with something else.
CkDamage(f) ==
    /\ f \in {Missing, Unreadable, Corrupt, NotADict}
    /\ ck_file' = f
    /\ ck_op' = "damage"
    /\ ck_trip' = "none"
    /\ ck_crash' = CrashKept(ck_trip')
    /\ UNCHANGED <<ck, ck_loaded, ck_saved>>
    /\ UNCHANGED <<clock, rlVars, cbVars, plVars, yVars, poVars, ddVars, rnVars, tlVars>>

\* --------------------------------------------------------- process_csv_data
\* Files by their number of data rows, and the chunk sizes they are read with.
RowCounts == {0, 500, 1000, 1500, 2000}
ChunkSizes == {500, 1000}

\* The flags of a run whose rows are not looked at one by one, its file and
\* its chunk_size.
Configs ==
    [streaming : BOOLEAN, checkpoints : BOOLEAN, dedup : {TRUE}, batching : {TRUE},
     retry : BOOLEAN, rows : RowCounts, chunk_size : ChunkSizes]

\* `getattr(dedup_cache, 'deduplicated_count', 0) if dedup_cache else 0`:
\* DeduplicationCache has no attribute deduplicated_count.
DeduplicatedCount(dedup) == 0

NoReport == [total |-> None, success |-> None, failed |-> None,
             retry_successful |-> None, deduplicated |-> None]

RnInit(cfg) ==
    /\ run_pc = "start"
    /\ run_cfg = cfg
    /\ total_processed = 0
    /\ total_successful = 0
    /\ all_failed_rows = 0
    /\ run_report = NoReport
    /\ chunk_saved = FALSE
    /\ run_cleaned = FALSE
    /\ resumed_from = 0

RnIdle ==
    RnInit([streaming |-> TRUE, checkpoints |-> TRUE, dedup |-> TRUE, batching |-> TRUE,
            retry |-> TRUE, rows |-> 0, chunk_size |-> 1000])

TlInit(rows, ok) ==
    /\ csv_rows = rows
    /\ row_pos = 0
    /\ events_to_send = 0
    /\ row_results = [success |-> 0, failed |-> 0, deduplicated |-> 0]
    /\ accepts = ok

TlIdle == TlInit(<<>>, TRUE)

\* Lines 317-324: the components are built and the checkpoint, if any, loaded.
\* The totals start from 0 whatever was loaded.
RunStart ==
    /\ run_pc = "start"
    /\ run_pc' = IF run_cfg.streaming THEN "chunks" ELSE "all"
    /\ IF run_cfg.checkpoints
       THEN /\ ck' = LoadCheckpoint(NewCheckpoint(clock), ck_file, clock).obj
            /\ ck_loaded' = LoadCheckpoint(NewCheckpoint(clock), ck_file, clock).ret
       ELSE UNCHANGED <<ck, ck_loaded>>
    /\ resumed_from' = IF run_cfg.checkpoints /\ ck_loaded' = "True"
                       THEN ck'.processed_count ELSE 0
    /\ UNCHANGED <<run_cfg, total_processed, total_successful, all_failed_rows, run_report,
                   chunk_saved, run_cleaned>>
    /\ UNCHANGED <<ck_file, ck_op, ck_saved, ck_trip, ck_crash>>
    /\ UNCHANGED <<clock, rlVars, cbVars, plVars, yVars, poVars, ddVars, tlVars>>

\* Lines 353-372: the totals after a chunk of n rows of which `failed` failed
\* and `skipped` were duplicates, then the checkpoint.
AfterChunk(n, failed, skipped) ==
    /\ total_successful' = total_successful + (n - failed - skipped)
    /\ total_processed' = total_processed + n
    /\ all_failed_rows' = all_failed_rows + failed
    /\ IF run_cfg.checkpoints
       THEN /\ ck' = [ck EXCEPT !.processed_count = total_processed',
                                !.success_count = total_successful',
                                !.total_rows = total_processed']
            /\ IF ShouldSave(ck'.processed_count)
               THEN /\ ck_file' = SaveCheckpoint(ck', ck_file, clock)
                    /\ chunk_saved' = TRUE
               ELSE /\ UNCHANGED ck_file
                    /\ chunk_saved' = FALSE
       ELSE /\ UNCHANGED <<ck, ck_file>>
            /\ chunk_saved' = FALSE

\* What can fail in a chunk of n rows: nothing, one row, or all of it.
FailChoices(n) == {0, 1, n}

\* Streaming: stream_csv_chunks yields the next chunk_size rows (the rest of
\* the file at the end) and process_chunk_in_batches works through it.
RunChunk(failed) ==
    /\ run_pc = "chunks"
    /\ total_processed < run_cfg.rows
    /\ failed <= Min(run_cfg.chunk_size, run_cfg.rows - total_processed)
    /\ AfterChunk(Min(run_cfg.chunk_size, run_cfg.rows - total_processed), failed, 0)
    /\ UNCHANGED <<resumed_from, run_pc, run_cfg, run_report, run_cleaned>>
    /\ UNCHANGED <<ck_loaded, ck_op, ck_saved, ck_trip, ck_crash>>
    /\ UNCHANGED <<clock, rlVars, cbVars, plVars, yVars, poVars, ddVars, tlVars>>

\* Streaming: the generator is exhausted.
RunChunksEnd ==
    /\ run_pc = "chunks"
    /\ total_processed = run_cfg.rows
    /\ run_pc' = "retry"
    /\ UNCHANGED <<resumed_from, run_cfg, total_processed, total_successful, all_failed_rows, run_report,
                   chunk_saved, run_cleaned>>
    /\ UNCHANGED <<clock, rlVars, cbVars, plVars, yVars, poVars, ddVars, ckVars, tlVars>>

\* Lines 376-399: the file is read whole.  An empty file returns at once;
\* otherwise process_chunk_in_batches works through all of it.
RunAll(failed) ==
    /\ run_pc = "all"
    /\ failed <= run_cfg.rows
    /\ ck' = IF run_cfg.checkpoints THEN [ck EXCEPT !.total_rows = run_cfg.rows] ELSE ck
    /\ IF run_cfg.rows = 0
       THEN /\ failed = 0
            /\ run_pc' = "done"
            /\ run_report' = [total |-> 0, success |-> 0, failed |-> 0,
                              retry_successful |-> None, deduplicated |-> None]
            /\ UNCHANGED <<total_processed, total_successful, all_failed_rows>>
       ELSE /\ run_pc' = "retry"
            /\ total_successful' = run_cfg.rows - failed
            /\ total_processed' = run_cfg.rows
            /\ all_failed_rows' = failed
            /\ UNCHANGED run_report
    /\ UNCHANGED <<resumed_from, run_cfg, chunk_saved, run_cleaned>>
    /\ UNCHANGED <<ck_file, ck_loaded, ck_op, ck_saved, ck_trip, ck_crash>>
    /\ UNCHANGED <<clock, rlVars, cbVars, plVars, yVars, poVars, ddVars, tlVars>>

\* Lines 401-406: an error while reading or processing: the checkpoint is
\* saved and the error raised again.
RunRaises ==
    /\ run_pc \in {"chunks", "all"}
    /\ run_pc' = "raised"
    /\ ck_file' = IF run_cfg.checkpoints THEN SaveCheckpoint(ck, ck_file, clock) ELSE ck_file
    /\ UNCHANGED <<resumed_from, run_cfg, total_processed, total_successful, all_failed_rows, run_report,
                   chunk_saved, run_cleaned>>
    /\ UNCHANGED <<ck, ck_loaded, ck_op, ck_saved, ck_trip, ck_crash>>
    /\ UNCHANGED <<clock, rlVars, cbVars, plVars, yVars, poVars, ddVars, tlVars>>

\* `if checkpoint and final_failed == 0`
CleanWanted(failed_first, final_failed) == final_failed = 0

\* Lines 409-459: the retry pass, of which retry_successful rows succeed, the
\* checkpoint cleaned or saved, and the tally returned.
RunFinish(retry_successful) ==
    /\ run_pc = "retry"
    /\ retry_successful \in
           IF run_cfg.retry /\ all_failed_rows > 0 THEN 0..all_failed_rows ELSE {0}
    /\ run_pc' = "done"
    /\ total_successful' = total_successful + retry_successful
    /\ IF ~run_cfg.checkpoints
       THEN UNCHANGED <<ck_file, run_cleaned>>
       ELSE IF CleanWanted(all_failed_rows, all_failed_rows - retry_successful)
       THEN /\ ck_file' = CleanCheckpoint(ck_file)
            /\ run_cleaned' = TRUE
       ELSE /\ ck_file' = SaveCheckpoint(ck, ck_file, clock)
            /\ UNCHANGED run_cleaned
    /\ run_report' = [total |-> total_processed,
                      success |-> total_successful',
                      failed |-> all_failed_rows - retry_successful,
                      retry_successful |-> retry_successful,
                      deduplicated |-> DeduplicatedCount(run_cfg.dedup)]
    /\ UNCHANGED <<resumed_from, run_cfg, total_processed, all_failed_rows, chunk_saved>>
    /\ UNCHANGED <<ck, ck_loaded, ck_op, ck_saved, ck_trip, ck_crash>>
    /\ UNCHANGED <<clock, rlVars, cbVars, plVars, yVars, poVars, ddVars, tlVars>>

\* ------------------------------------- one batch of a small file, by rows
NumRecords == 10

\* What the rows of the file can hold (email and attributes).
Contents == {1, 2}

\* process_csv_batch_optimized, lines 138-149, for the next row of the only
\* batch: the event goes through is_duplicate when there is a cache and is
\* skipped or kept for sending.
BatchRow ==
    /\ run_pc = "chunks"
    /\ row_pos < Len(csv_rows)
    /\ row_pos' = row_pos + 1
    /\ IF run_cfg.dedup /\ Hit(csv_rows[row_pos + 1], sent_events)
       THEN /\ row_results' = [row_results EXCEPT !.deduplicated = @ + 1]
            /\ UNCHANGED <<events_to_send, sent_events>>
       ELSE /\ events_to_send' = events_to_send + 1
            /\ UNCHANGED row_results
            /\ IF ~run_cfg.dedup THEN UNCHANGED sent_events
               ELSE IF CacheFull(sent_events, max_size)
               THEN \E old \in OldEvents(sent_events, max_size) :
                        sent_events' = Added(sent_events \ old, csv_rows[row_pos + 1])
               ELSE sent_events' = Added(sent_events, csv_rows[row_pos + 1])
    /\ UNCHANGED <<csv_rows, accepts>>
    /\ UNCHANGED <<max_size, dd_pc, dd_hash, dd_calls, dd_seen, dd_last, dd_twice, dd_new,
                   dd_evicted, dd_overlap>>
    /\ UNCHANGED <<clock, rlVars, cbVars, plVars, yVars, poVars, ckVars, rnVars>>

\* Lines 152-188 and 500-525: the events kept are sent, all accepted or all
\* refused; process_chunk_in_batches adds up success and failed of the batch
\* (not deduplicated), and process_csv_data its totals.
BatchSend ==
    /\ run_pc = "chunks"
    /\ row_pos = Len(csv_rows)
    /\ row_results' = [row_results EXCEPT
                           !.success = IF accepts THEN events_to_send ELSE 0,
                           !.failed = IF accepts THEN 0 ELSE events_to_send]
    /\ run_pc' = "retry"
    /\ IF Len(csv_rows) = 0
       THEN UNCHANGED <<total_successful, total_processed, all_failed_rows, ck, ck_file,
                        chunk_saved>>
       ELSE AfterChunk(Len(csv_rows), row_results'.failed, row_results.deduplicated)
    /\ UNCHANGED <<resumed_from, run_cfg, run_report, run_cleaned>>
    /\ UNCHANGED <<ck_loaded, ck_op, ck_saved, ck_trip, ck_crash>>
    /\ UNCHANGED <<csv_rows, row_pos, events_to_send, accepts>>
    /\ UNCHANGED <<clock, rlVars, cbVars, plVars, yVars, poVars, ddVars>>

\* ------------------------------------------------------ PerformanceMonitor
\* The means a window of samples can have, on both sides of each threshold
\* of auto_tune_parameters; success_rate in percent.
MeanFields == {"success_rate", "memory", "cpu", "throughput"}
GoodMeans == [success_rate |-> 96, memory |-> 69, cpu |-> 79, throughput |-> 11]
FairMeans == [success_rate |-> 80, memory |-> 90, cpu |-> 95, throughput |-> 11]
Means ==
    {m \in [success_rate : {79, 80, 95, 96}, memory : {69, 70, 90, 91},
            cpu : {79, 80, 95, 96}, throughput : {10, 11}] :
        \E base \in {GoodMeans, FairMeans} :
            Cardinality({f \in MeanFields : m[f] # base[f]}) <= 1}

Max(a, b) == IF a > b THEN a ELSE b

CanScaleUp_Inclusive(m) ==
    m.memory < 70 /\ m.cpu < 80 /\ m.success_rate >= 95 /\ m.throughput > 10

\* lines 295-296
CanScaleUp(m) ==
    m.memory < 70 /\ m.cpu < 80 /\ m.success_rate > 95 /\ m.throughput > 10

\* line 302
MustScaleDown(m) == m.success_rate < 80 \/ m.memory > 90 \/ m.cpu > 95

AutoTune_Uncapped(b, w, n, m) ==
    IF n < MinSamples THEN <<b, w>>
    ELSE IF CanScaleUp(m) THEN <<(11 * b) \div 10, w + 1>>
    ELSE IF MustScaleDown(m) THEN <<(9 * b) \div 10, w - 1>>
    ELSE <<b, w>>

\* auto_tune_parameters: the pair it stores and returns. int(b * 1.1) and
\* int(b * 0.9) are (11 * b) \div 10 and (9 * b) \div 10 for b in 50..200.
AutoTune(b, w, n, m) ==
    IF n < MinSamples THEN <<b, w>>
    ELSE IF CanScaleUp(m)
         THEN <<Min(MaxBatchSize, (11 * b) \div 10), Min(MaxWorkers, w + 1)>>
    ELSE IF MustScaleDown(m)
         THEN <<Max(MinBatchSize, (9 * b) \div 10), Max(MinWorkers, w - 1)>>
    ELSE <<b, w>>

TnInitFor(cfg) ==
    /\ optimal_batch_size = 100
    /\ optimal_workers = 10
    /\ samples = 0
    /\ avg = [success_rate |-> 0, memory |-> 0, cpu |-> 0, throughput |-> 0]
    /\ tn_op = "new"
    /\ tn_cfg = cfg
    /\ tn_used = <<>>

\* process_csv_data's defaults: batch_size 100, max_workers 10
TnInit == TnInitFor(<<100, 10>>)

\* record_batch_metrics: one more sample in each deque, up to maxlen, and
\* with it new means.
RecordBatchMetrics(m) ==
    /\ samples' = Min(samples + 1, MetricsMaxLen)
    /\ avg' = m
    /\ tn_op' = "record"
    /\ UNCHANGED <<optimal_batch_size, optimal_workers, tn_cfg, tn_used>>
    /\ UNCHANGED <<clock, rlVars, cbVars, plVars, poVars, ddVars, ckVars, rnVars, tlVars, psVars, gpVars, rcVars, skVars>>

AutoTuneParameters ==
    /\ optimal_batch_size' = AutoTune(optimal_batch_size, optimal_workers, samples, avg)[1]
    /\ optimal_workers' = AutoTune(optimal_batch_size, optimal_workers, samples, avg)[2]
    /\ tn_op' = "tune"
    /\ UNCHANGED <<samples, avg, tn_cfg, tn_used>>
    /\ UNCHANGED <<clock, rlVars, cbVars, plVars, poVars, ddVars, ckVars, rnVars, tlVars, psVars, gpVars, rcVars, skVars>>

\* One chunk of the streaming loop with enable_auto_tuning, lines 349-364:
\* batch_size, max_workers = performance_monitor.auto_tune_parameters(), the
\* chunk dispatched with them, then record_batch_metrics.
DispatchChunk(m) ==
    /\ optimal_batch_size' = AutoTune(optimal_batch_size, optimal_workers, samples, avg)[1]
    /\ optimal_workers' = AutoTune(optimal_batch_size, optimal_workers, samples, avg)[2]
    /\ tn_used' = <<optimal_batch_size', optimal_workers'>>
    /\ samples' = Min(samples + 1, MetricsMaxLen)
    /\ avg' = m
    /\ tn_op' = "chunk"
    /\ UNCHANGED tn_cfg
    /\ UNCHANGED <<clock, rlVars, cbVars, plVars, poVars, ddVars, ckVars, rnVars, tlVars, psVars, gpVars, rcVars, skVars>>

\* ------------------------- process_chunk_in_batches and retry_failed_events
\* One chunk holding the whole file, its records all different, so that
\* is_duplicate is False for each. The endpoints of this part never let
\* session.post use up its retries, so no call raises into the circuit
\* breaker and it stays CLOSED.
Ok == [status |-> 200, retry_after |-> FALSE]
BadRequest == [status |-> 400, retry_after |-> FALSE]
ServerError == [status |-> 500, retry_after |-> FALSE]

\* The remote endpoint: it answers every request alike, or it answers a
\* request holding an event it has not been sent before with `answer` and
\* every other request with 200.
Endpoints ==
    {[mode |-> "always", answer |-> r] : r \in {Ok, BadRequest}}
        \cup {[mode |-> "once", answer |-> r] : r \in {BadRequest, ServerError, NetError}}

Answer(ep, fresh) ==
    IF ep.mode = "always" \/ fresh THEN ep.answer ELSE Ok

\* session.post: urllib3 sends the request again while Retry says so; by
\* then the endpoint has been sent its events once.
RECURSIVE SessionPost(_, _, _)
SessionPost(ep, fresh, left) ==
    IF Answer(ep, fresh) # NetError /\ ~IsRetry(Answer(ep, fresh), left)
    THEN ResponseCause(Answer(ep, fresh))
    ELSE IF IsExhausted(left - 1) THEN "exception"
    ELSE SessionPost(ep, FALSE, left - 1)

Range(q) == {q[k] : k \in DOMAIN q}

\* Whether the request holding the events of `rows` is new to the endpoint.
Fresh(was_seen, rows) == ~(Range(rows) \subseteq was_seen)

\* client.send_event(event) with enable_batching=False
SendEvent(ep, was_seen, row) ==
    SendSingleEvent(BreakerCall(SessionPost(ep, Fresh(was_seen, <<row>>), total))).value = "True"

\* client._send_batch_events(batch)
SendBatch(ep, was_seen, rows) ==
    SendBatchEvents(BreakerCall(SessionPost(ep, Fresh(was_seen, rows), total))).value = "True"

\* send_events_batch: the slices of self.batch_size events, one after the other.
RECURSIVE SendEventsBatch(_, _, _)
SendEventsBatch(ep, was_seen, rows) ==
    IF rows = <<>> THEN [success |-> 0, failed |-> 0]
    ELSE LET n == Min(wire_batch_size, Len(rows))
             batch == SubSeq(rows, 1, n)
             ok == IF n = 1 THEN SendEvent(ep, was_seen, batch[1])
                   ELSE SendBatch(ep, was_seen, batch)
         IN BatchTally(SendEventsBatch(ep, was_seen, SubSeq(rows, n + 1, Len(rows))), ok, n)

\* Who a row is for: its user_identities.
Recipient(cfg, row) == IF cfg.recipients = "one" THEN 1 ELSE row

\* The payload _send_batch_events posts: every event of the slice, and the
\* user_identities of the first.
CombinedPayload(cfg, rows) ==
    [user_identities |-> Recipient(cfg, rows[1]), events |-> Range(rows)]

RECURSIVE BatchPayloads(_, _)
BatchPayloads(cfg, rows) ==
    IF rows = <<>> THEN {}
    ELSE LET n == Min(wire_batch_size, Len(rows))
         IN {CombinedPayload(cfg, SubSeq(rows, 1, n))}
                \cup BatchPayloads(cfg, SubSeq(rows, n + 1, Len(rows)))

BatchCount_Floor(n, size) == n \div size

\* batches = [data[i:i+batch_size] for i in range(0, len(data), batch_size)]
BatchCount(n, size) == (n + size - 1) \div size

Batch(cfg, i) ==
    [k \in 1..(Min(i * cfg.batch_size, cfg.rows) - (i - 1) * cfg.batch_size)
        |-> (i - 1) * cfg.batch_size + k]

Batches(cfg) == 1..BatchCount(cfg.rows, cfg.batch_size)

\* create_mparticle_event raises for a row of the batch.
MappingRaises(cfg, rows) == Range(rows) \cap cfg.faulty # {}

\* process_csv_batch_optimized on a batch whose events can all be built:
\* (results, failed_rows).
ProcessBatch(cfg, was_seen, rows) ==
    IF cfg.batching
    THEN IF SendEventsBatch(cfg.endpoint, was_seen, rows).success > 0
         THEN [success |-> Len(rows), failed |-> 0, failed_rows |-> <<>>]
         ELSE [success |-> 0, failed |-> Len(rows), failed_rows |-> rows]
    ELSE LET bad == SelectSeq(rows, LAMBDA r : ~SendEvent(cfg.endpoint, was_seen, r))
         IN [success |-> Len(rows) - Len(bad), failed |-> Len(bad), failed_rows |-> bad]

NoOut == [success |-> 0, failed |-> 0, failed_rows |-> <<>>]

Raised_RowsDropped(rows) == [success |-> 0, failed |-> Len(rows), failed_rows |-> <<>>]

\* except Exception, lines 513-518: what the batch adds to the totals.
Raised(rows) == [success |-> 0, failed |-> Len(rows), failed_rows |-> rows]

FinalFailed_NoRetries(n_failed, retry_successful) == n_failed

\* final_failed, lines 424 and 428: len(all_failed_rows) - retry_successful
FinalFailed(n_failed, retry_successful) == n_failed - retry_successful

PsConfigs ==
    [rows : {NumRecords, RunRecords}, batch_size : {RunBatchSize},
     max_workers : {RunWorkers}, batching : BOOLEAN, retry : BOOLEAN,
     endpoint : Endpoints, recipients : {"one", "each"}, faulty : {{}, {1}}]

PsInit(cfg) ==
    /\ ps_cfg = cfg
    /\ task = [i \in Batches(cfg) |-> "queued"]
    /\ task_out = [i \in Batches(cfg) |-> NoOut]
    /\ seen = {}
    /\ payloads = {}
    /\ ps_pc = "pool"
    /\ ps_successful = 0
    /\ ps_failed = 0
    /\ ps_failed_rows = <<>>
    /\ retry_pos = 0
    /\ retry_results = 0
    /\ ps_report = NoReport

PsIdle ==
    PsInit([rows |-> 0, batch_size |-> RunBatchSize, max_workers |-> RunWorkers,
            batching |-> TRUE, retry |-> FALSE, endpoint |-> [mode |-> "always", answer |-> Ok],
            recipients |-> "one", faulty |-> {}])

\* A free worker of the ThreadPoolExecutor takes the next submitted batch.
TaskStart(i) ==
    /\ ps_pc = "pool"
    /\ task[i] = "queued"
    /\ \A j \in Batches(ps_cfg) : j < i => task[j] # "queued"
    /\ Cardinality({j \in Batches(ps_cfg) : task[j] = "running"}) < ps_cfg.max_workers
    /\ task' = [task EXCEPT ![i] = "running"]
    /\ UNCHANGED <<ps_cfg, task_out, seen, payloads, ps_pc, ps_successful, ps_failed,
                   ps_failed_rows, retry_pos, retry_results, ps_report>>
    /\ UNCHANGED <<clock, rlVars, cbVars, plVars, poVars, ddVars, ckVars, rnVars, tlVars, tnVars, gpVars, rcVars, skVars>>

\* process_csv_batch_optimized(batch, ...) runs to its end in its worker.
TaskFinish(i) ==
    /\ task[i] = "running"
    /\ IF MappingRaises(ps_cfg, Batch(ps_cfg, i))
       THEN /\ task' = [task EXCEPT ![i] = "raised"]
            /\ payloads' = {}
            /\ UNCHANGED <<task_out, seen>>
       ELSE /\ task' = [task EXCEPT ![i] = "returned"]
            /\ task_out' = [task_out EXCEPT ![i] = ProcessBatch(ps_cfg, seen, Batch(ps_cfg, i))]
            /\ seen' = seen \cup Range(Batch(ps_cfg, i))
            /\ payloads' = IF ps_cfg.batching THEN BatchPayloads(ps_cfg, Batch(ps_cfg, i))
                           ELSE {CombinedPayload(ps_cfg, <<r>>) : r \in Range(Batch(ps_cfg, i))}
    /\ UNCHANGED <<ps_cfg, ps_pc, ps_successful, ps_failed, ps_failed_rows, retry_pos,
                   retry_results, ps_report>>
    /\ UNCHANGED <<clock, rlVars, cbVars, plVars, poVars, ddVars, ckVars, rnVars, tlVars, tnVars, gpVars, rcVars, skVars>>

\* as_completed hands over a finished future; future.result() returns or raises.
Collect(i) ==
    /\ ps_pc = "pool"
    /\ task[i] \in {"returned", "raised"}
    /\ LET out == IF task[i] = "raised" THEN Raised(Batch(ps_cfg, i)) ELSE task_out[i]
       IN /\ ps_successful' = ps_successful + out.success
          /\ ps_failed' = ps_failed + out.failed
          /\ ps_failed_rows' = ps_failed_rows \o out.failed_rows
          /\ task_out' = [task_out EXCEPT ![i] = out]
    /\ task' = [task EXCEPT ![i] = "collected"]
    /\ payloads' = {}
    /\ UNCHANGED <<ps_cfg, seen, ps_pc, retry_pos, retry_results, ps_report>>
    /\ UNCHANGED <<clock, rlVars, cbVars, plVars, poVars, ddVars, ckVars, rnVars, tlVars, tnVars, gpVars, rcVars, skVars>>

AllCollected_Started(cfg, t) == \A i \in Batches(cfg) : t[i] # "queued"

\* The as_completed loop of lines 501-518 ends when every future submitted
\* has been handed over, and the `with` block of line 483 after it.
AllCollected(cfg, t) == \A i \in Batches(cfg) : t[i] = "collected"

\* process_chunk_in_batches returns; process_csv_data goes on to line 415.
ChunkEnd ==
    /\ ps_pc = "pool"
    /\ AllCollected(ps_cfg, task)
    /\ ps_pc' = "retry"
    /\ payloads' = {}
    /\ UNCHANGED <<ps_cfg, task, task_out, seen, ps_successful, ps_failed, ps_failed_rows,
                   retry_pos, retry_results, ps_report>>
    /\ UNCHANGED <<clock, rlVars, cbVars, plVars, poVars, ddVars, ckVars, rnVars, tlVars, tnVars, gpVars, rcVars, skVars>>

\* retry_failed_events, one row of the loop at lines 250-263. Nothing there
\* or at line 417 catches what create_mparticle_event raises.
RetryRow ==
    /\ ps_pc = "retry"
    /\ ps_cfg.retry
    /\ retry_pos < Len(ps_failed_rows)
    /\ LET row == ps_failed_rows[retry_pos + 1]
       IN IF MappingRaises(ps_cfg, <<row>>)
          THEN /\ ps_pc' = "raised"
               /\ payloads' = {}
               /\ UNCHANGED <<seen, retry_pos, retry_results>>
          ELSE /\ retry_results' = IF SendEvent(ps_cfg.endpoint, seen, row)
                                   THEN retry_results + 1 ELSE retry_results
               /\ seen' = seen \cup {row}
               /\ payloads' = {CombinedPayload(ps_cfg, <<row>>)}
               /\ retry_pos' = retry_pos + 1
               /\ UNCHANGED ps_pc
    /\ UNCHANGED <<ps_cfg, task, task_out, ps_successful, ps_failed, ps_failed_rows, ps_report>>
    /\ UNCHANGED <<clock, rlVars, cbVars, plVars, poVars, ddVars, ckVars, rnVars, tlVars, tnVars, gpVars, rcVars, skVars>>

\* lines 420-459: the totals after the retry pass, and the tally returned.
PsFinish ==
    /\ ps_pc = "retry"
    /\ ps_cfg.retry => retry_pos = Len(ps_failed_rows)
    /\ ps_pc' = "done"
    /\ payloads' = {}
    /\ ps_report' = [total |-> ps_cfg.rows,
                     success |-> ps_successful + retry_results,
                     failed |-> FinalFailed(Len(ps_failed_rows), retry_results),
                     retry_successful |-> retry_results,
                     deduplicated |-> DeduplicatedCount(TRUE)]
    /\ UNCHANGED <<ps_cfg, task, task_out, seen, ps_successful, ps_failed, ps_failed_rows,
                   retry_pos, retry_results>>
    /\ UNCHANGED <<clock, rlVars, cbVars, plVars, poVars, ddVars, ckVars, rnVars, tlVars, tnVars, gpVars, rcVars, skVars>>

\* --------------------------- requests of one client through its breaker
\* What the endpoint answers a request with, and the kind of each answer:
\* a status session.post hands back, one it sends the request again for, or
\* no response at all.
Answers ==
    {Ok, BadRequest, ServerError, NetError,
     [status |-> 429, retry_after |-> TRUE], [status |-> 413, retry_after |-> TRUE]}

AnswerKind(r) ==
    IF r = NetError THEN "no response"
    ELSE IF r.status \in status_forcelist THEN "forced"
    ELSE IF ResponseCause(r) = "2xx" THEN "2xx" ELSE "refused"

\* session.post against an endpoint that gives the answer r to the first k
\* attempts of the request and 200 to the ones after.
RECURSIVE PostOutcome(_, _, _)
PostOutcome(r, k, left) ==
    IF k = 0 THEN ResponseCause(Ok)
    ELSE IF r # NetError /\ ~IsRetry(r, left) THEN ResponseCause(r)
    ELSE IF IsExhausted(left - 1) THEN "exception"
    ELSE PostOutcome(r, k - 1, left - 1)

GpInit ==
    /\ gp_sent = 0
    /\ gp_hist = {}
    /\ gp_last = [cause |-> "none", answer |-> Ok]

\* _send_single_event(event): circuit_breaker.call(_make_api_request, event)
\* from its first line to its return or raise.
GuardedSend(r, k) ==
    /\ gp_sent < MaxCalls
    /\ gp_sent' = gp_sent + 1
    /\ IF state = "OPEN" /\ ~RecoveryElapsed(clock, last_failure_time)
       THEN /\ gp_last' = [cause |-> "rejected", answer |-> r]
            /\ UNCHANGED <<state, failure_count, last_failure_time, gp_hist>>
       ELSE LET cause == PostOutcome(r, k, total)
                st == IF state = "OPEN" THEN "HALF_OPEN" ELSE state
            IN /\ gp_last' = [cause |-> cause, answer |-> r]
               /\ gp_hist' = gp_hist \cup {AnswerKind(IF k = 0 THEN Ok ELSE r)}
               /\ IF MakeApiRequest(cause).kind = "return"
                  THEN /\ state' = SuccessState(st)
                       /\ failure_count' = SuccessCount(st, failure_count)
                       /\ UNCHANGED last_failure_time
                  ELSE /\ failure_count' = failure_count + 1
                       /\ last_failure_time' = clock
                       /\ state' = IF ThresholdReached(failure_count + 1) THEN "OPEN" ELSE st
    /\ UNCHANGED <<cb_pc, result, calls, invocations, streak, last>>
    /\ UNCHANGED <<clock, rlVars, plVars, poVars, ddVars, ckVars, rnVars, tlVars, tnVars, psVars, rcVars, skVars>>

\* --------------------------- the batches of a chunk around the dedup cache
\* process_csv_batch_optimized in each worker of the pool, row by row, on a
\* cache far from full and against an endpoint that accepts every request.
RcInit(dedup, batches) ==
    /\ rc_dedup = dedup
    /\ rc_batch = batches
    /\ rc_pc = [w \in Workers |-> "look"]
    /\ rc_pos = [w \in Workers |-> 0]
    /\ rc_events = [w \in Workers |-> 0]
    /\ rc_report = NoReport

RcIdle == RcInit(FALSE, [w \in Workers |-> <<>>])

\* Lines 137-149 up to `event_hash in self.sent_events`: a duplicate is
\* skipped, a row without cache goes to events_to_send.
RcLook(w) ==
    /\ rc_pc[w] = "look"
    /\ rc_pos[w] < Len(rc_batch[w])
    /\ IF ~rc_dedup
       THEN /\ rc_events' = [rc_events EXCEPT ![w] = @ + 1]
            /\ rc_pos' = [rc_pos EXCEPT ![w] = @ + 1]
            /\ UNCHANGED rc_pc
       ELSE IF Hit(rc_batch[w][rc_pos[w] + 1], sent_events)
       THEN /\ rc_pos' = [rc_pos EXCEPT ![w] = @ + 1]
            /\ UNCHANGED <<rc_pc, rc_events>>
       ELSE /\ rc_pc' = [rc_pc EXCEPT ![w] = "add"]
            /\ UNCHANGED <<rc_pos, rc_events>>
    /\ UNCHANGED <<rc_dedup, rc_batch, rc_report>>
    /\ UNCHANGED <<clock, rlVars, cbVars, plVars, poVars, ddVars, ckVars, rnVars, tlVars,
                   tnVars, psVars, gpVars, skVars>>

\* is_duplicate adds the fingerprint and returns False; the event goes to
\* events_to_send.
RcAdd(w) ==
    /\ rc_pc[w] = "add"
    /\ sent_events' = Added(sent_events, rc_batch[w][rc_pos[w] + 1])
    /\ rc_events' = [rc_events EXCEPT ![w] = @ + 1]
    /\ rc_pos' = [rc_pos EXCEPT ![w] = @ + 1]
    /\ rc_pc' = [rc_pc EXCEPT ![w] = "look"]
    /\ UNCHANGED <<rc_dedup, rc_batch, rc_report>>
    /\ UNCHANGED <<max_size, dd_pc, dd_hash, dd_calls, dd_seen, dd_last, dd_twice, dd_new,
                   dd_evicted, dd_overlap>>
    /\ UNCHANGED <<clock, rlVars, cbVars, plVars, poVars, ckVars, rnVars, tlVars,
                   tnVars, psVars, gpVars, skVars>>

\* Lines 152-188: the events of the batch are sent and accepted.
RcSend(w) ==
    /\ rc_pc[w] = "look"
    /\ rc_pos[w] = Len(rc_batch[w])
    /\ rc_pc' = [rc_pc EXCEPT ![w] = "sent"]
    /\ UNCHANGED <<rc_dedup, rc_batch, rc_pos, rc_events, rc_report>>
    /\ UNCHANGED <<clock, rlVars, cbVars, plVars, poVars, ddVars, ckVars, rnVars, tlVars,
                   tnVars, psVars, gpVars, skVars>>

RECURSIVE SumUpTo(_, _)
SumUpTo(f, n) == IF n = 0 THEN 0 ELSE f[n] + SumUpTo(f, n - 1)

\* process_chunk_in_batches adds up the results of the batches and
\* process_csv_data returns the tally.
RcTally ==
    /\ rc_report = NoReport
    /\ \A w \in Workers : rc_pc[w] = "sent"
    /\ rc_report' = [total |-> SumUpTo([w \in Workers |-> Len(rc_batch[w])], NumThreads),
                     success |-> SumUpTo(rc_events, NumThreads),
                     failed |-> 0,
                     retry_successful |-> 0,
                     deduplicated |-> DeduplicatedCount(rc_dedup)]
    /\ UNCHANGED <<rc_dedup, rc_batch, rc_pc, rc_pos, rc_events>>
    /\ UNCHANGED <<clock, rlVars, cbVars, plVars, poVars, ddVars, ckVars, rnVars, tlVars,
                   tnVars, psVars, gpVars, skVars>>

\* ---------------------------------- the retry pass and the failed-rows file
\* process_csv_data from line 415 on, with all_failed_rows as the batches
\* left it; a row is known by its place in the input.
SkInit(cfg, n) ==
    /\ sk_cfg = cfg
    /\ sk_rows = [k \in 1..n |-> k]
    /\ sk_pos = 0
    /\ sk_ok = {}
    /\ sk_pc = "retry"
    /\ sk_file = <<>>

SkIdle == SkInit([retry |-> FALSE, save |-> FALSE], 0)

\* retry_failed_events, one row of the loop at lines 250-263: send_event
\* returns ok.
SkRetry(ok) ==
    /\ sk_pc = "retry"
    /\ sk_cfg.retry
    /\ sk_pos < Len(sk_rows)
    /\ sk_pos' = sk_pos + 1
    /\ sk_ok' = IF ok THEN sk_ok \cup {sk_rows[sk_pos + 1]} ELSE sk_ok
    /\ UNCHANGED <<sk_cfg, sk_rows, sk_pc, sk_file>>
    /\ UNCHANGED <<clock, rlVars, cbVars, plVars, poVars, ddVars, ckVars, rnVars, tlVars,
                   tnVars, psVars, gpVars, rcVars>>

\* remaining_failed, line 432
RemainingFailed(rows, retry_successful) ==
    IF retry_successful > 0 THEN SubSeq(rows, retry_successful + 1, Len(rows)) ELSE rows

\* Lines 430-433, and save_failed_rows_to_file, which writes nothing for an
\* empty list.
SkSave ==
    /\ sk_pc = "retry"
    /\ sk_cfg.retry => sk_pos = Len(sk_rows)
    /\ sk_pc' = "done"
    /\ sk_file' = IF sk_cfg.save /\ sk_rows # <<>>
                  THEN RemainingFailed(sk_rows, Cardinality(sk_ok))
                  ELSE <<>>
    /\ UNCHANGED <<sk_cfg, sk_rows, sk_pos, sk_ok>>
    /\ UNCHANGED <<clock, rlVars, cbVars, plVars, poVars, ddVars, ckVars, rnVars, tlVars,
                   tnVars, psVars, gpVars, rcVars>>

\* ------------------------------------------------------------------ time

Tick ==
    /\ clock < MaxTime
    /\ clock' = clock + 1
    /\ UNCHANGED <<rlVars, cbVars, plVars, xVars>>

\* -------------------------------------------------------- specifications

\* The components added to the pipeline, before any of them is used.
YIdle == TnInit /\ PsIdle /\ GpInit /\ RcIdle /\ SkIdle

XInit == PoInit /\ DdIdle /\ CkIdle /\ RnIdle /\ TlIdle /\ YIdle

Init == clock = 0 /\ RlInit /\ CbInit /\ PlIdle /\ XInit

LimiterNext ==
    \/ \E t \in Threads : AcquireEnter(t)
    \/ \E t \in Threads : AcquireWake(t)
    \/ Tick

\* Concurrent acquire() calls on one RateLimiter.
LimiterSpec == Init /\ [][LimiterNext]_vars

BreakerNext ==
    \/ \E t \in Threads : CallEnter(t)
    \/ \E t \in Threads : CallSucceed(t)
    \/ \E t \in Threads : CallFail(t)
    \/ Tick

\* Concurrent call() calls on one CircuitBreaker.
BreakerSpec == Init /\ [][BreakerNext]_vars

BatchNext ==
    \/ \E w \in Workers : SendEnter(w)
    \/ \E w \in Workers : SendWake(w)
    \/ \E w \in Workers, cause \in Causes : SendFinish(w, cause)
    \/ Tick

\* One call of process_csv_batch_optimized: a single worker task and its batch
\* of 1..BatchLen rows.
BatchInit ==
    /\ clock = 0 /\ RlInit /\ CbInit /\ XInit
    /\ \E n \in 1..BatchLen : PlInit([w \in Workers |-> IF w = 1 THEN n ELSE 0])

BatchSpec == BatchInit /\ [][BatchNext]_vars

\* The worker tasks of one chunk run side by side, one batch of ChunkRows rows
\* each.  With ChunkRows <= max_requests no client fills its own window, so no
\* acquire() sleeps and SendWake has nothing to do here.
ChunkInit ==
    /\ clock = 0 /\ RlInit /\ CbInit /\ XInit
    /\ PlInit([w \in Workers |-> ChunkRows])

ChunkNext ==
    \/ \E w \in Workers : SendEnter(w)
    \/ \E w \in Workers, cause \in Causes : SendFinish(w, cause)
    \/ Tick

ChunkSpec == ChunkInit /\ [][ChunkNext]_vars

PostNext ==
    \/ PostStart
    \/ \E r \in Responses : PostResponse(r)
    \/ PostNetError

\* One _send_single_event on a client whose breaker is CLOSED and whose
\* limiter has room, against every sequence of answers of the remote endpoint.
PostSpec == Init /\ [][PostNext]_vars

DedupInit ==
    /\ clock = 0 /\ RlInit /\ CbInit /\ PlIdle /\ PoInit /\ CkIdle /\ RnIdle /\ TlIdle /\ YIdle
    /\ \E size \in 1..MaxCacheSize : DdInit(size)

DedupNext ==
    \/ \E w \in Workers, h \in Fingerprints : DdCheck(w, h)
    \/ \E w \in Workers : DdEvict(w)
    \/ \E w \in Workers : DdAdd(w)

\* One DeduplicationCache of any max_size, called by the batch workers of a run.
DedupSpec == DedupInit /\ [][DedupNext]_vars

CheckpointInit ==
    /\ clock = 0 /\ RlInit /\ CbInit /\ PlIdle /\ PoInit /\ DdIdle /\ RnIdle /\ TlIdle /\ YIdle
    /\ \E f \in InitialFiles : CkInit(f)

CheckpointNext ==
    \/ CkRestart
    \/ CkLoad
    \/ \E p \in Counts : \E s \in {0, p} : CkUpdate(p, s)
    \/ CkSave
    \/ CkClean
    \/ \E f \in {Missing, Unreadable, Corrupt, NotADict} : CkDamage(f)
    \/ Tick

\* One checkpoint file and the ProcessingCheckpoint objects of the processes
\* that use it, one after the other.
CheckpointSpec == CheckpointInit /\ [][CheckpointNext]_vars

CrashNext ==
    \/ CkRestart
    \/ CkLoad
    \/ \E p \in Counts : \E s \in {0, p} : CkUpdate(p, s)
    \/ CkSave
    \/ CkCrashInSave

\* The checkpoint file under processes that can be killed while they save it.
CrashSpec == CheckpointInit /\ [][CrashNext]_vars

\* The checkpoint file a run can find: none, or one left by an earlier run.
LeftFiles == {Missing, Corrupt, Dump([NewCheckpoint(0) EXCEPT !.processed_count = 500], 0)}

RunInit ==
    /\ clock = 0 /\ RlInit /\ CbInit /\ PlIdle /\ PoInit /\ DdIdle /\ TlIdle /\ YIdle
    /\ \E f \in LeftFiles : CkInit(f)
    /\ \E cfg \in Configs : RnInit(cfg)

RunNext ==
    \/ RunStart
    \/ \E failed \in FailChoices(Min(run_cfg.chunk_size, run_cfg.rows - total_processed)) :
           RunChunk(failed)
    \/ RunChunksEnd
    \/ \E failed \in FailChoices(run_cfg.rows) : RunAll(failed)
    \/ RunRaises
    \/ \E n \in {0, 1, all_failed_rows} : RunFinish(n)

\* process_csv_data over files of up to 2000 rows, chunk by chunk.
RunSpec == RunInit /\ [][RunNext]_vars

RECURSIVE SeqsUpTo(_, _)
SeqsUpTo(S, n) ==
    IF n = 0 THEN {<<>>}
    ELSE SeqsUpTo(S, n - 1) \cup {Append(q, x) : q \in {r \in SeqsUpTo(S, n - 1) : Len(r) = n - 1}, x \in S}

TallyInit ==
    /\ clock = 0 /\ RlInit /\ CbInit /\ PlIdle /\ PoInit /\ DdIdle
    /\ \E f \in LeftFiles : CkInit(f)
    /\ \E rows \in SeqsUpTo(Contents, NumRecords), ok \in BOOLEAN :
           /\ TlInit(rows, ok)
           /\ YIdle
           /\ \E dedup \in BOOLEAN, batching \in BOOLEAN :
                  RnInit([streaming |-> TRUE, checkpoints |-> TRUE, dedup |-> dedup,
                          batching |-> batching, retry |-> TRUE, rows |-> Len(rows),
                          chunk_size |-> 5000])

TallyNext ==
    \/ RunStart
    \/ BatchRow
    \/ BatchSend
    \/ RunFinish(0)

\* process_csv_data over a file small enough for one chunk and one batch, row
\* by row, against an endpoint that accepts every request or none.
TallySpec == TallyInit /\ [][TallyNext]_vars

TuneNext ==
    \/ \E m \in Means : RecordBatchMetrics(m)
    \/ AutoTuneParameters

\* One PerformanceMonitor: batches recorded and parameters tuned in any order.
TuneSpec == Init /\ [][TuneNext]_vars

PassInit ==
    /\ clock = 0 /\ RlInit /\ CbInit /\ PlIdle /\ PoInit /\ DdIdle /\ CkIdle /\ RnIdle
    /\ TlIdle /\ TnInit /\ GpInit /\ RcIdle /\ SkIdle
    /\ \E cfg \in PsConfigs : PsInit(cfg)

PassNext ==
    \/ \E i \in Batches(ps_cfg) : TaskStart(i)
    \/ \E i \in Batches(ps_cfg) : TaskFinish(i)
    \/ \E i \in Batches(ps_cfg) : Collect(i)
    \/ ChunkEnd
    \/ RetryRow
    \/ PsFinish

\* One run of process_csv_data over a file of one chunk: the batches in the
\* pool, their results collected as they complete, then the retry pass.
PassSpec == PassInit /\ [][PassNext]_vars

TunedRunInit ==
    /\ clock = 0 /\ RlInit /\ CbInit /\ PlIdle /\ PoInit /\ DdIdle /\ CkIdle /\ RnIdle
    /\ TlIdle /\ PsIdle /\ GpInit /\ RcIdle /\ SkIdle
    /\ \E cfg \in {<<100, 10>>, <<RunBatchSize, RunWorkers>>} : TnInitFor(cfg)

TunedRunNext == \E m \in Means : DispatchChunk(m)

\* The chunks of one streaming run with enable_auto_tuning.
TunedRunSpec == TunedRunInit /\ [][TunedRunNext]_vars

GuardedNext ==
    \/ \E r \in Answers : \E k \in 0..(total + 1) : GuardedSend(r, k)
    \/ Tick

\* One client, its requests one after the other, each through session.post
\* and the circuit breaker.
GuardedSpec == Init /\ [][GuardedNext]_vars

RaceInit ==
    /\ clock = 0 /\ RlInit /\ CbInit /\ PlIdle /\ PoInit /\ DdIdle /\ CkIdle /\ RnIdle
    /\ TlIdle /\ TnInit /\ PsIdle /\ GpInit /\ SkIdle
    /\ \E dedup \in BOOLEAN, batches \in [Workers -> SeqsUpTo(Contents, ChunkRows)] :
           RcInit(dedup, batches)

RaceNext ==
    \/ \E w \in Workers : RcLook(w)
    \/ \E w \in Workers : RcAdd(w)
    \/ \E w \in Workers : RcSend(w)
    \/ RcTally

\* The batches of one chunk running in the pool at the same time.
RaceSpec == RaceInit /\ [][RaceNext]_vars

SinkInit ==
    /\ clock = 0 /\ RlInit /\ CbInit /\ PlIdle /\ PoInit /\ DdIdle /\ CkIdle /\ RnIdle
    /\ TlIdle /\ TnInit /\ PsIdle /\ GpInit /\ RcIdle
    /\ \E cfg \in [retry : BOOLEAN, save : BOOLEAN], n \in 0..MaxFailedRows : SkInit(cfg, n)

SinkNext ==
    \/ \E ok \in BOOLEAN : SkRetry(ok)
    \/ SkSave

\* The end of a run that is left with up to MaxFailedRows failed rows, under
\* every pattern of retries accepted and refused.
SinkSpec == SinkInit /\ [][SinkNext]_vars

\* ---------------------------------------------------------------- claims

\* The admissions recorded in the window of duration time_window that ends at e:
\* the timestamps ts with e - ts < time_window, the window the limiter itself keeps.
InWindow(e) == {i \in 1..Len(admitted) :
                    admitted[i] <= e /\ e - admitted[i] < time_window}

\* C1: for every interleaving of concurrent acquire() calls on one limiter, no
\* window of duration time_window, ending at any point of the run, contains more
\* than max_requests recorded admission timestamps.
C1_WindowBound == \A e \in 0..MaxTime : Cardinality(InWindow(e)) <= max_requests

\* C1 happens: the window filled up, a caller slept and was admitted afterwards.
C1_Witness == waited >= 1 /\ Len(admitted) > max_requests

\* A step that starts a call() on the breaker.
IsCallStart == calls' = calls + 1

\* C2: starting CLOSED with failure_count 0, once failure_threshold operation
\* failures in a row have been recorded, a call() made while recovery_timeout has
\* not elapsed since the last failure raises the breaker-open error and does not
\* invoke its operation.
C2_OpenRejects ==
    [][ (/\ IsCallStart
         /\ streak >= failure_threshold
         /\ clock - last_failure_time <= recovery_timeout)
        => (/\ invocations' = invocations
            /\ cb_pc' = cb_pc
            /\ \E t \in Threads : result'[t] = "BreakerOpen" /\ last'.op = "reject") ]_vars

\* C2 happens: a call was rejected right after failure_threshold failures in a row.
C2_Witness ==
    /\ streak >= failure_threshold
    /\ last.op = "reject"
    /\ \E t \in Threads : result[t] = "BreakerOpen"

\* C3: once the breaker is OPEN and recovery_timeout has elapsed since the last
\* failure, the next call() moves it to HALF_OPEN and invokes its operation
\* exactly once; no other step of a call() invokes the operation.
C3_HalfOpenProbe ==
    [][ /\ (IsCallStart /\ state = "OPEN" /\ clock - last_failure_time > recovery_timeout)
            => (/\ state' = "HALF_OPEN"
                /\ invocations' = invocations + 1
                /\ \E t \in Threads : cb_pc[t] = "idle" /\ cb_pc'[t] = "running")
        /\ invocations' - invocations <= calls' - calls ]_vars

\* C3 happens: the probe call found the breaker OPEN and is running its operation.
C3_Witness ==
    /\ state = "HALF_OPEN"
    /\ last = [op |-> "invoke", pre |-> "OPEN"]
    /\ \E t \in Threads : cb_pc[t] = "running"

\* C4: a success recorded while the breaker is HALF_OPEN leaves it CLOSED with
\* failure_count 0, and every recorded success leaves failure_count 0.
C4_SuccessResets ==
    /\ last.op = "success" => failure_count = 0
    /\ last = [op |-> "success", pre |-> "HALF_OPEN"] => state = "CLOSED"

\* C4 happens: a call succeeded while the breaker was HALF_OPEN.
C4_Witness == last = [op |-> "success", pre |-> "HALF_OPEN"] /\ state = "CLOSED"

\* C5: a call() whose operation fails while the breaker is HALF_OPEN returns the
\* breaker to OPEN, in every interleaving of concurrent calls.
C5_HalfOpenFailureReopens ==
    last = [op |-> "failure", pre |-> "HALF_OPEN"] => state = "OPEN"

\* C6: within one run all worker batches send through the same breaker state:
\* a failure recorded by one worker's send counts toward the failure_count that
\* every other worker's later send observes, so each worker about to send sees
\* the failures the run has recorded in a row.
C6_SharedBreaker ==
    \A w \in Workers : wpc[w] = "ready" => client[w].failure_count = run_streak

\* C7: the outbound requests of all workers together pass one shared rate
\* window: no window of duration time_window contains more than max_requests
\* outbound requests of the run.
C7_SharedWindow ==
    \A e \in 0..MaxTime :
        Cardinality({i \in 1..Len(wire) :
                        wire[i] <= e /\ e - wire[i] < time_window}) <= max_requests

\* The rows of worker w's batch that no 2xx response covered.
Undelivered(w) == (1..batch_len[w]) \ delivered[w]

\* C8: in batched and in unbatched mode, when the per-batch pipeline returns,
\* every row whose event was not delivered is in the returned failed_rows and
\* counted in failed, never in success, whichever requests succeeded or failed.
C8_FailedRowsReported ==
    \A w \in Workers :
        wpc[w] = "done" =>
            /\ \A r \in Undelivered(w) :
                   \E i \in 1..Len(failed_rows[w]) : failed_rows[w][i] = r
            /\ results[w].failed >= Cardinality(Undelivered(w))
            /\ results[w].success <= Cardinality(delivered[w])

\* C9: send_events_batch marks all events of a request that succeeded as
\* successful and all events of a request that failed as failed, so success
\* counts exactly the events of the 2xx requests and success + failed is the
\* number of events handled (all those submitted, once it returns).
C9_BatchTallyComplete ==
    \A w \in Workers :
        enable_batching =>
            /\ batch_results[w].success = Cardinality(delivered[w])
            /\ batch_results[w].success + batch_results[w].failed = pos[w]

\* C9 happens: send_events_batch returned after a merged request that failed
\* and a request that succeeded.
C9_Witness ==
    \E w \in Workers :
        /\ enable_batching
        /\ wpc[w] = "done"
        /\ batch_results[w].failed >= 2
        /\ batch_results[w].success >= 1

\* C10 as stated: _send_single_event returns a boolean for a 2xx, a non-2xx and
\* a network exception, and a call rejected by the OPEN breaker surfaces as the
\* breaker-open error.
C10_BreakerOpenSurfaces ==
    \A w \in Workers :
        /\ single[w].cause \in Causes =>
               single[w].out \in {Return("True"), Return("False")}
        /\ single[w].cause = "rejected" => single[w].out = Raise("BreakerOpen")

\* C10 amended: _send_single_event returns a boolean for every outcome, the
\* rejection by the OPEN breaker included (False), and never raises; it
\* returns True exactly for a 2xx response.
C10_AlwaysBoolean ==
    \A w \in Workers :
        single[w].cause # "none" =>
            /\ single[w].out \in {Return("True"), Return("False")}
            /\ single[w].out = Return("True") <=> single[w].cause = "2xx"

\* C10 happens: the OPEN breaker rejected a single-event send, which returned False.
C10_Witness ==
    \E w \in Workers : single[w].cause = "rejected" /\ single[w].out = Return("False")

\* The status codes the remote endpoint answered with, attempt by attempt.
StatusSeq == [i \in 1..Len(responses) |-> responses[i].status]

\* C11: when the remote endpoint answers 429 to the first 2 attempts and 2xx to
\* the third, _send_single_event returns True after 3 attempts and exactly 2
\* sleeps between them.
C11_TwoBackoffSleeps ==
    (po_pc = "done" /\ StatusSeq = <<429, 429, 200>>) =>
        /\ send_result = Return("True")
        /\ attempts = 3
        /\ Len(backoff_sleeps) + header_sleeps = 2

\* C12: a non-2xx response whose status is outside {429, 500, 502, 503, 504} is
\* terminal: _send_single_event returns False after exactly one request.
C12_TerminalNoRetry ==
    \A i \in 1..Len(responses) :
        (/\ responses[i].status # 0
         /\ ResponseCause(responses[i]) = "non2xx"
         /\ responses[i].status \notin {429, 500, 502, 503, 504})
        => (/\ i = 1
            /\ po_pc = "done"
            /\ attempts = 1
            /\ send_result = Return("False"))

\* A call starts on the content of the call that has just returned False.
Repeats ==
    /\ dd_calls' = dd_calls + 1
    /\ dd_last.ret = "False"
    /\ dd_last'.hash = dd_last.hash

\* C13: is_duplicate called twice in sequence on the same content returns False
\* then True, and the second call leaves sent_events unchanged.
C13_FalseThenTrue ==
    [][Repeats => (dd_last'.ret = "True" /\ sent_events' = sent_events)]_vars

C13_Witness == dd_twice /\ dd_last.ret = "True" /\ dd_last.hash \in sent_events

\* C14: for every max_size >= 1, after any sequence of is_duplicate calls the
\* cache holds at most max_size fingerprints.
C14_Bounded == ~dd_overlap => Cardinality(sent_events) <= max_size

\* C15: when several workers call is_duplicate with the same fingerprint and
\* nothing is evicted, at most one of the calls returns False.
C15_OneFalsePerFingerprint ==
    ~dd_evicted => \A h \in Fingerprints : dd_new[h] <= 1

\* C17: a load_checkpoint in a new process, after a save_checkpoint that
\* completed, gives an object with the saved processed_count, success_count,
\* total_rows, failed_events and start_time.
C17_RoundTrip == ck_trip = "loaded" => (ck_loaded = "True" /\ ck = ck_saved)

C17_Witness ==
    /\ ck_trip = "loaded"
    /\ ck.processed_count = 500
    /\ ck.success_count = 500
    /\ ck.failed_events # <<>>
    /\ ck.start_time < clock

\* C18: load_checkpoint on a missing, unreadable or malformed file returns
\* False (it does not raise) and leaves the object's fields as they were.
C18_BadFileIsAbsent ==
    [][(ck_op' = "load" /\ ck_file.kind \in {"missing", "unreadable", "corrupt", "object"})
           => (ck_loaded' = "False" /\ ck' = ck)]_vars

C18_Witness ==
    /\ ck_op = "load"
    /\ ck_file.kind \in {"unreadable", "corrupt", "object"}
    /\ ck_loaded = "False"
    /\ ck.processed_count = 500

\* Every row of the file has the same content.
AllIdentical == \A i \in 1..Len(csv_rows) : csv_rows[i] = csv_rows[1]

\* C16: with deduplication on, 10 rows of identical content and an endpoint
\* that accepts every request, the tally returned has deduplicated = 9 and
\* success = 1.
C16_TallyCountsDuplicates ==
    (/\ run_pc = "done"
     /\ run_cfg.dedup
     /\ accepts
     /\ Len(csv_rows) = 10
     /\ AllIdentical)
    => (run_report.deduplicated = 9 /\ run_report.success = 1)

\* C19: should_save_checkpoint is true exactly for the multiples of 1000, and
\* while streaming a chunk is followed by save_checkpoint exactly when the
\* rows processed so far are such a multiple.
C19_SavedOnMultiples ==
    /\ \A p \in RowCounts \cup {total_processed} :
           ShouldSave(p) <=> \E k \in 0..p : p = 1000 * k
    /\ (run_cfg.streaming /\ run_cfg.checkpoints /\ total_processed > 0)
           => (chunk_saved <=> \E k \in 1..total_processed : total_processed = 1000 * k)

C19_Witness ==
    /\ run_cfg.streaming /\ run_cfg.checkpoints
    /\ total_processed = 1000
    /\ chunk_saved
    /\ ck_file = Dump(ck, clock)
    /\ ck.processed_count = 1000
    /\ run_cfg.chunk_size = 500

\* C20: with checkpoints on, a run that completes with no failure left after
\* the retry pass leaves no checkpoint file, and a run that completes with
\* failures left has not called clean_checkpoint.
C20_CleanedIffNoFailures ==
    (run_pc = "done" /\ run_cfg.checkpoints)
        => (/\ run_report.failed = 0 => ck_file = Missing
            /\ run_report.failed > 0 => (~run_cleaned /\ ck_file # Missing))

\* C29: a call rejected by an OPEN breaker whose recovery_timeout has not
\* elapsed leaves state, failure_count and last_failure_time as they were, so
\* the time from which a probe is let through does not move.
C29_RejectionChangesNothing ==
    [][(IsCallStart /\ last'.op = "reject")
           => (/\ state' = state
               /\ failure_count' = failure_count
               /\ last_failure_time' = last_failure_time)]_vars

C29_Witness ==
    /\ last.op = "reject"
    /\ state = "OPEN"
    /\ clock > last_failure_time
    /\ \E t \in Threads : result[t] = "BreakerOpen"

\* The rows of the file handed to process_chunk_in_batches so far in this run.
Dispatched == 1..total_processed

\* C21: when the checkpoint loaded at the start of a run has processed_count
\* k > 0, the first k rows of the file are not dispatched again.
C21_ResumeSkipsProcessed ==
    (ck_loaded = "True" /\ resumed_from > 0)
        => Dispatched \cap (1..resumed_from) = {}

\* C28: every tally process_csv_data returns holds all of total, success,
\* failed, retry_successful and deduplicated, and failures left are a count in
\* it.
C28_TallyHasAllKeys ==
    run_pc = "done"
        => (/\ \A key \in DOMAIN NoReport : run_report[key] # None
            /\ run_report.failed >= 0)

\* C22: when the process dies inside save_checkpoint while the file held a
\* checkpoint, the load_checkpoint of the next process returns True on the
\* file as it was before the save or as the finished save would have left it.
C22_CrashSafeSave ==
    ck_trip = "recovered"
        => (/\ ck_loaded = "True"
            /\ ck_file \in {ck_crash.prev, ck_crash.new})

\* C23: auto_tune_parameters leaves both parameters as they are while fewer
\* than 5 samples are held; with 5 or more it raises them (batch size by a
\* tenth up to 200, workers by one up to 20) exactly when the mean success
\* rate is above 0.95, memory below 70, cpu below 80 and throughput above 10;
\* otherwise it lowers them (batch size by a tenth down to 50, workers by one
\* down to 3) exactly when success rate is below 0.8 or memory above 90 or cpu
\* above 95; otherwise it leaves them.
C23_Up ==
    avg.success_rate > 95 /\ avg.memory < 70 /\ avg.cpu < 80 /\ avg.throughput > 10

C23_Down == avg.success_rate < 80 \/ avg.memory > 90 \/ avg.cpu > 95

C23_AutoTune ==
    [][tn_op' = "tune" =>
        IF samples < 5
        THEN optimal_batch_size' = optimal_batch_size /\ optimal_workers' = optimal_workers
        ELSE IF C23_Up
        THEN /\ optimal_batch_size' = Min(200, optimal_batch_size + optimal_batch_size \div 10)
             /\ optimal_workers' = Min(20, optimal_workers + 1)
        ELSE IF C23_Down
        THEN /\ optimal_batch_size' = Max(50, (optimal_batch_size * 9) \div 10)
             /\ optimal_workers' = Max(3, optimal_workers - 1)
        ELSE optimal_batch_size' = optimal_batch_size /\ optimal_workers' = optimal_workers]_vars

C23_Witness ==
    /\ tn_op = "tune"
    /\ samples >= 5
    /\ optimal_batch_size = 200
    /\ optimal_workers = 20
    /\ avg.success_rate = 95

\* C24: a batch whose task raised is caught when its future is collected:
\* all its rows are counted failed and are in the failed rows, and once every
\* batch is collected the totals cover every row of the chunk.
C24_RaisedBatchCountedFailed ==
    /\ \A i \in Batches(ps_cfg) :
           (task[i] = "collected" /\ MappingRaises(ps_cfg, Batch(ps_cfg, i)))
               => Range(Batch(ps_cfg, i)) \subseteq Range(ps_failed_rows)
    /\ (\A i \in Batches(ps_cfg) : task[i] = "collected")
           => (/\ ps_successful + ps_failed = ps_cfg.rows
               /\ ps_failed = Len(ps_failed_rows))

C24_Witness ==
    /\ ps_pc = "retry"
    /\ ps_cfg.faulty # {}
    /\ ps_cfg.rows = RunRecords
    /\ ps_successful > 0
    /\ ps_failed = Len(Batch(ps_cfg, 1))

\* C25: no exception of a single record or batch ends the run without a tally,
\* in the parallel pass or in the retry pass.
C25_RunNeverAborted == ps_pc # "raised"

\* C27: 25 records, batch_size 10, 3 workers, an endpoint that always answers
\* 2xx: the tally is total 25, success 25, failed 0, whatever the order in
\* which the batches complete.
C27_AllSucceed ==
    (/\ ps_pc = "done"
     /\ ps_cfg.rows = RunRecords
     /\ ps_cfg.endpoint = [mode |-> "always", answer |-> Ok]
     /\ ps_cfg.faulty = {})
        => (/\ ps_report.total = RunRecords
            /\ ps_report.success = RunRecords
            /\ ps_report.failed = 0)

C27_Witness ==
    /\ ps_pc = "done"
    /\ ps_cfg.rows = RunRecords
    /\ ps_cfg.endpoint = [mode |-> "always", answer |-> Ok]
    /\ ps_cfg.faulty = {}
    /\ ps_report.success = RunRecords
    /\ Cardinality(Batches(ps_cfg)) > 2

\* C30: every payload posted holds only events of the recipient whose
\* user_identities it carries.
C30_OneRecipientPerPayload ==
    \A p \in payloads : \A e \in p.events : Recipient(ps_cfg, e) = p.user_identities

\* C26 as stated: 10 records, an endpoint that fails every event once and
\* then succeeds, retry_failed set: failed is 0 and retry_successful is total.
C26_Scenario ==
    /\ ps_pc = "done"
    /\ ps_cfg.rows = NumRecords
    /\ ps_cfg.endpoint.mode = "once"
    /\ ps_cfg.retry
    /\ ps_cfg.faulty = {}

C26_RetryRecoversAll ==
    C26_Scenario
        => (ps_report.failed = 0 /\ ps_report.retry_successful = ps_report.total)

\* C26, amended: the same when the one failure per event is an answer that
\* session.post hands back instead of sending the request again (a status
\* outside status_forcelist, such as 400).
C26_RetryRecoversRefused ==
    (C26_Scenario /\ ps_cfg.endpoint.answer # NetError
                  /\ ~IsRetry(ps_cfg.endpoint.answer, total))
        => (ps_report.failed = 0 /\ ps_report.retry_successful = ps_report.total)

C26_Witness ==
    /\ C26_Scenario
    /\ ps_cfg.endpoint.answer = BadRequest
    /\ ps_report.retry_successful = NumRecords
    /\ ps_report.failed = 0

\* C34: from the initial values, after any sequence of record_batch_metrics
\* and auto_tune_parameters calls optimal_batch_size is within 50..200 and
\* optimal_workers within 3..20.
C34_TunedWithinBounds ==
    /\ 50 <= optimal_batch_size /\ optimal_batch_size <= 200
    /\ 3 <= optimal_workers /\ optimal_workers <= 20

C34_Witness ==
    /\ tn_op = "tune"
    /\ samples >= 5
    /\ optimal_batch_size = 50
    /\ optimal_workers = 3
    /\ MustScaleDown(avg)

\* C36: with auto-tuning on and fewer than 5 samples recorded, a chunk is
\* dispatched with the batch_size and max_workers the caller passed.
C36_CallerValuesUsed ==
    [][(tn_op' = "chunk" /\ samples < 5) => tn_used' = tn_cfg]_vars

\* C37: a send rejected by the OPEN breaker leaves the rate limiter's window
\* of timestamps as it was.
C37_RejectionKeepsWindow ==
    [][\A w \in Workers :
          (/\ wpc[w] = "ready"
           /\ client[w].state = "OPEN"
           /\ ~RecoveryElapsed(clock, client[w].last_failure_time)
           /\ pos'[w] # pos[w])
              => client'[w].requests = client[w].requests]_vars

C37_Witness ==
    \E w \in Workers :
        /\ single[w].cause = "rejected"
        /\ client[w].state = "OPEN"
        /\ client[w].requests # <<>>
        /\ pos[w] > failure_threshold

\* C39 as stated: failure_count grows only on a request that raised, a
\* request that ended in a non-2xx response leaves failure_count 0, and an
\* endpoint that answers every attempt with a response, whatever its status,
\* never opens the breaker.
C39_StatusNeverOpens ==
    /\ gp_last.cause = "non2xx" => failure_count = 0
    /\ "no response" \notin gp_hist => state # "OPEN"

\* C39, amended: the last part holds for statuses outside status_forcelist;
\* a forced status that outlasts the retries of session.post raises.
C39_RefusedNeverOpens ==
    /\ gp_last.cause = "non2xx" => failure_count = 0
    /\ failure_count > 0 => gp_hist \cap {"no response", "forced"} # {}
    /\ gp_hist \cap {"no response", "forced"} = {}
           => (state = "CLOSED" /\ failure_count = 0)

C39_Witness ==
    /\ gp_sent > failure_threshold
    /\ gp_hist = {"refused"}
    /\ gp_last.cause = "non2xx"
    /\ state = "CLOSED"

\* C38: under every interleaving of concurrent call()s, while state is OPEN
\* or HALF_OPEN failure_count is at least failure_threshold.
C38_OpenKeepsCount ==
    state \in {"OPEN", "HALF_OPEN"} => failure_count >= failure_threshold

\* C40: while the breaker is HALF_OPEN at most one invocation of func is in
\* progress through it.
C40_OneProbe ==
    state = "HALF_OPEN" => Cardinality({t \in Threads : cb_pc[t] = "running"}) <= 1

\* C31: for a fixed input and an endpoint that accepts every request the
\* counts returned are the same for every interleaving of the batches, with
\* or without deduplication: they are the counts of the run in which the
\* batches go one after the other, where every row is sent when there is no
\* cache and every content once when there is.
C31_SameCountsInEveryOrder ==
    rc_report # NoReport
        => (/\ rc_report.total = SumUpTo([w \in Workers |-> Len(rc_batch[w])], NumThreads)
            /\ rc_report.failed = 0
            /\ rc_report.success =
                   IF rc_dedup
                   THEN Cardinality(UNION {Range(rc_batch[w]) : w \in Workers})
                   ELSE rc_report.total)

\* C35: the tally returned has total = success + failed + deduplicated.
C35_TallyConserved ==
    run_pc = "done"
        => run_report.total
               = run_report.success + run_report.failed + run_report.deduplicated

\* C32: the retry pass starts only when every batch has completed and its
\* result has been added to the totals, and a request posted in the retry
\* pass carries one event and is the only one in flight.
C32_RetryAfterPoolOneByOne ==
    (ps_pc = "retry" \/ retry_pos > 0)
        => (/\ \A i \in Batches(ps_cfg) : task[i] = "collected"
            /\ ps_successful = SumUpTo([i \in Batches(ps_cfg) |-> task_out[i].success],
                                       Cardinality(Batches(ps_cfg)))
            /\ Len(ps_failed_rows) = SumUpTo([i \in Batches(ps_cfg) |-> task_out[i].failed],
                                             Cardinality(Batches(ps_cfg)))
            /\ Cardinality(payloads) <= 1
            /\ \A p \in payloads : Cardinality(p.events) = 1)

C32_Witness ==
    /\ ps_pc = "retry"
    /\ Cardinality(Batches(ps_cfg)) > 1
    /\ retry_pos > 1
    /\ payloads # {}

\* C33: when save_failed_file is given, the rows written to it are exactly
\* the failed rows whose retry was not accepted, whichever retries are
\* accepted.
C33_SinkHoldsStillFailed ==
    (sk_pc = "done" /\ sk_cfg.save)
        => /\ Range(sk_file) = Range(sk_rows) \ sk_ok
           /\ Len(sk_file) = Cardinality(Range(sk_file))

=============================================================================
